---- MODULE Spec2Model ----
(***************************************************************************)
(* A model of the gorm core: the callback chains of the write operations   *)
(* (callbacks/*.go), the schema cache (schema.ParseWithSpecialTableName),  *)
(* the session / clone-mode discipline (DB.Session, DB.getInstance,        *)
(* Statement.clone) and the clause model with the statement builder        *)
(* (clause.Expr, clause.Where, Statement.AddVar, Statement.AddClause).     *)
(*                                                                         *)
(* Each subsystem has its own specification over its own variables; the    *)
(* variables of the other subsystems stay at their initial value.          *)
(***************************************************************************)
EXTENDS Integers, Sequences, FiniteSets, TLC

VARIABLES
    op,        \* chain: which chain Execute runs, "create" or "delete"
    fns,       \* chain: the compiled chain, the names of its stages in order
    cb,        \* chain: the callbacks.Config the chains were registered with
    pc,        \* chain: index of the next stage of the chain
    db,        \* chain: the *gorm.DB handle of the operation (Config, Error, Statement)
    db0,       \* chain: the handle as it was when the chain started
    pool,      \* chain: the operations issued on the connection pool, in order
    hooks,     \* chain: the hook methods invoked, in order
    models,      \* cache: the record types: relationship field and parse failure of each
    cacheStore,  \* cache: the sync.Map, cache key -> Schema object (0: no entry)
    schemas,     \* cache: the Schema objects allocated so far (key, initialized, err)
    threads,     \* cache: per goroutine, the stack of its running parse calls
    returned,    \* cache: what the parse calls returned so far
    started,     \* cache: the goroutines that have started their parse call
    heap,        \* session: the *DB handles, Configs, Statements, maps and arrays allocated
    last,        \* session: the last call: its name, its receiver, what it returned,
                 \*          and how many additions to statements the calls made so far
    sessions,    \* session: the Session config of each handle that Session returned
    backing,     \* builder: the backing arrays of the []clause.Expression slices
    statement,   \* builder: the Statement: its WHERE clause, SQL buffer and Vars
    wheres,      \* builder: the clause.Where values given to AddClause, in order
    creation,    \* create: one call of callbacks.Create: its handle, config, result
    parsing,     \* fields: one record type, its parsed schema, the columns bound to it
    scanning,    \* scan: one call of Scan: its rows, its handle, what it did
    conversion   \* values: one record type, one destination, the calls of
                 \*         ConvertToCreateValues on them

chainVars == <<op, fns, cb, pc, db, db0, pool, hooks>>
cacheVars == <<models, cacheStore, schemas, threads, returned, started>>

sessionVars == <<heap, last, sessions>>

builderVars == <<backing, statement, wheres>>

\* the subsystems of one variable: a call on inputs
callVars == <<creation, parsing, scanning, conversion>>

systemVars == <<chainVars, cacheVars, sessionVars, builderVars>>

vars == <<systemVars, callVars>>

\* the variables of the other subsystems
notChain == <<cacheVars, sessionVars, builderVars, callVars>>
notCache == <<chainVars, sessionVars, builderVars, callVars>>
notSession == <<chainVars, cacheVars, builderVars, callVars>>
notBuilder == <<chainVars, cacheVars, sessionVars, callVars>>
notCreation == <<systemVars, parsing, scanning, conversion>>
notParsing == <<systemVars, creation, scanning, conversion>>
notScanning == <<systemVars, creation, parsing, conversion>>
notConversion == <<systemVars, creation, parsing, scanning>>

----------------------------------------------------------------------------
(* Bounds *)

\* the longest slice destination of an operation
MaxDest == 2

\* the handles allocated when the calls on handles stop
MaxHandles == 4

\* the conditions, preloads, joins and scopes added to statements altogether
MaxAdded == 2

\* the WHERE clauses added to the statement of the builder
MaxWheres == 3

\* the longest slice that one call of callbacks.Create inserts
MaxRecords == 3

\* the fields of the record type that is parsed
MaxFields == 3

\* the rows of the result set that is scanned
MaxRows == 2

----------------------------------------------------------------------------
(* The state of a subsystem while another one runs *)

IdleChain ==
    /\ op = "none" /\ fns = <<>> /\ cb = <<>> /\ pc = 1
    /\ db = <<>> /\ db0 = <<>> /\ pool = <<>> /\ hooks = <<>>

IdleCache ==
    /\ models = <<>> /\ cacheStore = <<>> /\ schemas = <<>>
    /\ threads = <<>> /\ returned = {} /\ started = {}

IdleSession == heap = <<>> /\ last = <<>> /\ sessions = <<>>

IdleBuilder == backing = <<>> /\ statement = <<>> /\ wheres = <<>>

IdleCalls == creation = <<>> /\ parsing = <<>> /\ scanning = <<>> /\ conversion = <<>>

IdleSystems == IdleChain /\ IdleCache /\ IdleSession /\ IdleBuilder

----------------------------------------------------------------------------
(* Errors: db.Error is the chain of recorded errors; nil is the empty chain *)

NoError == <<>>

ErrMissingWhereClause == "ErrMissingWhereClause"
ErrInvalidTransaction == "ErrInvalidTransaction"

\* an AddError that keeps the first error and drops the later ones
AddError_KeepFirst(d, err) ==
    IF err = "" THEN d
    ELSE [d EXCEPT !.Error = IF d.Error = NoError THEN <<err>> ELSE d.Error]

\* DB.AddError: nil leaves the error alone, the first error is stored, a later
\* one is appended to the text of the earlier ones ("%v; %w")
AddError(d, err) ==
    IF err = "" THEN d
    ELSE [d EXCEPT !.Error = IF d.Error = NoError THEN <<err>> ELSE Append(d.Error, err)]

RECURSIVE AddErrors(_, _)
AddErrors(d, errs) ==
    IF errs = <<>> THEN d ELSE AddErrors(AddError(d, Head(errs)), Tail(errs))

RECURSIVE ErrorText(_)
\* Error() of the error AddError built from the errors e: the text of the
\* earlier ones ("%v"), "; ", and the text of the last
ErrorText(e) ==
    IF e = NoError THEN ""
    ELSE IF Len(e) = 1 THEN e[1]
    ELSE ErrorText(SubSeq(e, 1, Len(e) - 1)) \o "; " \o e[Len(e)]

\* errors.Unwrap of the error AddError built from the errors e: the operand
\* of "%w" ("": nil, a single error is stored as is and wraps nothing)
Unwrap(e) == IF Len(e) > 1 THEN e[Len(e)] ELSE ""

----------------------------------------------------------------------------
(* Clauses of a statement: a map from clause name to clause.Clause *)

NoExpression == [Kind |-> "nil", Exprs |-> <<>>]

\* a MergeClause that puts the new expressions before the earlier ones
WhereMergeClause_Prepend(where, c) ==
    LET exprs == IF c.Expression.Kind = "Where"
                 THEN where.Exprs \o c.Expression.Exprs
                 ELSE where.Exprs
    IN [c EXCEPT !.Expression = [Kind |-> "Where", Exprs |-> exprs]]

\* Where.MergeClause: the earlier expressions, then the new ones
WhereMergeClause(where, c) ==
    LET exprs == IF c.Expression.Kind = "Where"
                 THEN c.Expression.Exprs \o where.Exprs
                 ELSE where.Exprs
    IN [c EXCEPT !.Expression = [Kind |-> "Where", Exprs |-> exprs]]

\* Delete.MergeClause: replaces the expression and clears the clause's name
DeleteMergeClause(v, c) == [Name |-> "", Expression |-> v]

\* From.MergeClause: replaces the expression
FromMergeClause(v, c) == [c EXCEPT !.Expression = v]

ClauseName(v) ==
    CASE v.Kind = "Where" -> "WHERE"
      [] v.Kind = "Delete" -> "DELETE"
      [] v.Kind = "From" -> "FROM"
      [] v.Kind = "Insert" -> "INSERT"
      [] v.Kind = "Values" -> "VALUES"
      [] OTHER -> "RETURNING"

MergeClause(v, c) ==
    CASE v.Kind = "Where" -> WhereMergeClause(v, c)
      [] v.Kind = "Delete" -> DeleteMergeClause(v, c)
      [] OTHER -> FromMergeClause(v, c)

\* Statement.AddClause on the Clauses map
AddClause(clauses, v) ==
    LET name == ClauseName(v)
        c0 == IF name \in DOMAIN clauses THEN clauses[name]
              ELSE [Name |-> "", Expression |-> NoExpression]
        c == MergeClause(v, [c0 EXCEPT !.Name = name])
    IN [n \in DOMAIN clauses \cup {name} |-> IF n = name THEN c ELSE clauses[n]]

\* Statement.AddClauseIfNotExists
AddClauseIfNotExists(clauses, v) ==
    IF ClauseName(v) \notin DOMAIN clauses
       \/ clauses[ClauseName(v)].Expression.Kind = "nil"
    THEN AddClause(clauses, v) ELSE clauses

RECURSIVE AddClauses(_, _)
AddClauses(clauses, vs) ==
    IF vs = <<>> THEN clauses ELSE AddClauses(AddClause(clauses, Head(vs)), Tail(vs))

\* Statement.Build at the level of clause names: the clauses of the statement
\* that are named in the build order, in that order
BuildNames(clauses, order) == SelectSeq(order, LAMBDA n : n \in DOMAIN clauses)

----------------------------------------------------------------------------
(* The connection pool and the transaction calls of the handle.            *)
(* Statement.ConnPool is "pool" (the *sql.DB of the handle: a TxBeginner), *)
(* "outerTx" (a transaction the caller began: a TxCommitter that cannot    *)
(* begin) or "tx" (the transaction of BeginTransaction).                   *)

\* what a handler did: the handle after it, the pool operations it issued
\* and the hook methods it invoked
Out(d, io, calls) == [db |-> d, io |-> io, calls |-> calls]

StartedTransaction == "gorm:started_transaction"

\* DB.InstanceSet
InstanceSet(d, key) == [d EXCEPT !.Statement.Settings = @ \cup {key}]

\* DB.InstanceGet
InstanceGet(d, key) == key \in d.Statement.Settings

\* DB.Begin: begins on a pool that can begin (the pool operation is logged as
\* "BeginTx", or "BeginTx failed" when it returns an error), and is
\* ErrInvalidTransaction on a pool that cannot
Begin(d, beginErr) ==
    IF d.Statement.ConnPool = "pool"
    THEN [ConnPool |-> IF beginErr = "" THEN "tx" ELSE "pool",
          Error |-> IF beginErr = "" THEN NoError ELSE <<beginErr>>,
          io |-> IF beginErr = "" THEN <<"BeginTx">> ELSE <<"BeginTx failed">>]
    ELSE [ConnPool |-> d.Statement.ConnPool,
          Error |-> <<ErrInvalidTransaction>>,
          io |-> <<>>]

\* DB.Commit, DB.Rollback: on a TxCommitter the call is issued and its error
\* recorded; on any other pool ErrInvalidTransaction is recorded
EndTransaction(d, call, endErr) ==
    IF d.Statement.ConnPool \in {"tx", "outerTx"}
    THEN Out(AddError(d, endErr), <<call>>, <<>>)
    ELSE Out(AddError(d, ErrInvalidTransaction), <<>>, <<>>)

\* callbacks.BeginTransaction
BeginTransaction(d, beginErr) ==
    IF ~d.Config.SkipDefaultTransaction /\ d.Error = NoError
    THEN LET tx == Begin(d, beginErr)
         IN IF tx.Error = NoError
            THEN Out(InstanceSet([d EXCEPT !.Statement.ConnPool = tx.ConnPool],
                                 StartedTransaction), tx.io, <<>>)
            ELSE IF tx.Error = <<ErrInvalidTransaction>>
            THEN Out(d, tx.io, <<>>)
            ELSE Out([d EXCEPT !.Error = tx.Error], tx.io, <<>>)
    ELSE Out(d, <<>>, <<>>)

\* a CommitOrRollbackTransaction that commits whatever the handle's error is
CommitOrRollbackTransaction_AlwaysCommit(d, endErr) ==
    IF ~d.Config.SkipDefaultTransaction /\ InstanceGet(d, StartedTransaction)
    THEN LET r == EndTransaction(d, "Commit", endErr)
         IN Out([r.db EXCEPT !.Statement.ConnPool = d.Config.ConnPool], r.io, <<>>)
    ELSE Out(d, <<>>, <<>>)

\* callbacks.CommitOrRollbackTransaction
CommitOrRollbackTransaction(d, endErr) ==
    IF ~d.Config.SkipDefaultTransaction /\ InstanceGet(d, StartedTransaction)
    THEN LET r == IF d.Error # NoError
                  THEN EndTransaction(d, "Rollback", endErr)
                  ELSE EndTransaction(d, "Commit", endErr)
         IN Out([r.db EXCEPT !.Statement.ConnPool = d.Config.ConnPool], r.io, <<>>)
    ELSE Out(d, <<>>, <<>>)

----------------------------------------------------------------------------
(* Hook stages.  ret[<<i, m>>] is the error that hook method m returns on   *)
(* element i of the destination ("" is nil).                               *)

RECURSIVE CallMethods(_, _, _, _, _)
\* calls the methods ms, in order, on elements i..n, recording each returned
\* error; no error stops the calls of the same stage
CallMethods(d, ms, i, n, ret) ==
    IF i > n THEN Out(d, <<>>, <<>>)
    ELSE LET errs == [k \in 1 .. Len(ms) |-> ret[<<i, ms[k]>>]]
             rest == CallMethods(AddErrors(d, errs), ms, i + 1, n, ret)
         IN Out(rest.db, <<>>, [k \in 1 .. Len(ms) |-> <<i, ms[k]>>] \o rest.calls)

\* the hook methods among ms that the schema has flagged
Flagged(schema, ms) == SelectSeq(ms, LAMBDA m : schema[m])

\* callbacks.BeforeCreate
BeforeCreate(d, ret) ==
    LET st == d.Statement
    IN IF d.Error = NoError /\ st.Schema.Present /\ ~st.SkipHooks
          /\ (st.Schema.BeforeSave \/ st.Schema.BeforeCreate)
       THEN CallMethods(d, Flagged(st.Schema, <<"BeforeSave", "BeforeCreate">>),
                        1, Len(st.Dest), ret)
       ELSE Out(d, <<>>, <<>>)

\* callbacks.AfterCreate
AfterCreate(d, ret) ==
    LET st == d.Statement
    IN IF d.Error = NoError /\ st.Schema.Present /\ ~st.SkipHooks
          /\ (st.Schema.AfterSave \/ st.Schema.AfterCreate)
       THEN CallMethods(d, Flagged(st.Schema, <<"AfterCreate", "AfterSave">>),
                        1, Len(st.Dest), ret)
       ELSE Out(d, <<>>, <<>>)

\* callbacks.BeforeDelete
BeforeDelete(d, ret) ==
    LET st == d.Statement
    IN IF d.Error = NoError /\ st.Schema.Present /\ st.Schema.BeforeDelete
       THEN CallMethods(d, <<"BeforeDelete">>, 1, Len(st.Dest), ret)
       ELSE Out(d, <<>>, <<>>)

\* callbacks.AfterDelete
AfterDelete(d, ret) ==
    LET st == d.Statement
    IN IF d.Error = NoError /\ st.Schema.Present /\ st.Schema.AfterDelete
       THEN CallMethods(d, <<"AfterDelete">>, 1, Len(st.Dest), ret)
       ELSE Out(d, <<>>, <<>>)

\* the association stages (save_before_associations, save_after_associations,
\* delete_before_associations) of a schema without relationships
Associations(d) == Out(d, <<>>, <<>>)

----------------------------------------------------------------------------
(* The SQL stages *)

\* schema.GetIdentityFieldValuesMap with schema.ToQueryValues: the non-zero
\* primary values of the records
PrimaryValues(records) ==
    LET nz == SelectSeq(records, LAMBDA r : r.ID # 0)
    IN [i \in 1 .. Len(nz) |-> nz[i].ID]

PrimaryIn(values) == [Kind |-> "Where", Exprs |-> <<[Kind |-> "IN", Column |-> "id", Values |-> values]>>]

deleteClauses == <<"DELETE", "FROM", "WHERE">>

\* a tail of callbacks.Delete that executes in a dry run too
DeleteExec_Always(d, res) ==
    IF res.err = ""
    THEN Out([d EXCEPT !.RowsAffected = res.rows], <<"Exec">>, <<>>)
    ELSE Out(AddError(d, res.err), <<"Exec">>, <<>>)

\* the tail of callbacks.Delete: the statement is executed unless DryRun
DeleteExec(d, res) ==
    IF ~d.Config.DryRun
    THEN IF res.err = ""
         THEN Out([d EXCEPT !.RowsAffected = res.rows], <<"Exec">>, <<>>)
         ELSE Out(AddError(d, res.err), <<"Exec">>, <<>>)
    ELSE Out(d, <<>>, <<>>)

\* a check that lets an unscoped statement pass without WHERE
MissingWhere_Scoped(st, clauses) == ~st.Unscoped /\ "WHERE" \notin DOMAIN clauses

\* the check of callbacks.Delete for a WHERE clause among the clauses
MissingWhere(st, clauses) == "WHERE" \notin DOMAIN clauses

\* callbacks.Delete, once the handle is known to carry no error
DeleteBuild(d, res) ==
    LET st == d.Statement
        c1 == IF st.Schema.Present /\ ~st.Unscoped
              THEN AddClauses(st.Clauses, st.Schema.DeleteClauses) ELSE st.Clauses
    IN IF st.SQL = <<>>
       THEN LET c2 == AddClauseIfNotExists(c1, [Kind |-> "Delete", Exprs |-> <<>>])
                c3 == IF st.Schema.Present /\ PrimaryValues(st.Dest) # <<>>
                      THEN AddClause(c2, PrimaryIn(PrimaryValues(st.Dest))) ELSE c2
                c4 == IF st.Schema.Present /\ st.Model.Kind = "other"
                         /\ PrimaryValues(<<st.Model>>) # <<>>
                      THEN AddClause(c3, PrimaryIn(PrimaryValues(<<st.Model>>))) ELSE c3
            IN IF MissingWhere(st, c4)
               THEN Out(AddError([d EXCEPT !.Statement.Clauses = c4], ErrMissingWhereClause),
                        <<>>, <<>>)
               ELSE LET c5 == AddClauseIfNotExists(c4, [Kind |-> "From", Exprs |-> <<>>])
                    IN DeleteExec([d EXCEPT !.Statement.Clauses = c5,
                                            !.Statement.SQL = BuildNames(c5, deleteClauses)],
                                  res)
       ELSE DeleteExec([d EXCEPT !.Statement.Clauses = c1], res)

\* a Delete that runs whatever the handle's error is
Delete_NoErrorCheck(d, res) == DeleteBuild(d, res)

\* a Delete that records the missing WHERE and executes all the same
Delete_NoReturn(d, res) ==
    IF d.Error # NoError THEN Out(d, <<>>, <<>>)
    ELSE LET r == DeleteBuild(d, res)
         IN IF r.db.Error = <<ErrMissingWhereClause>> THEN DeleteExec(r.db, res) ELSE r

\* callbacks.Delete
Delete(d, res) ==
    IF d.Error # NoError THEN Out(d, <<>>, <<>>) ELSE DeleteBuild(d, res)

createClauses == <<"INSERT", "VALUES", "ON CONFLICT">>

ErrEmptySlice == "ErrEmptySlice"

\* the error ConvertToCreateValues records for the destination: an empty slice
ConvertToCreateValuesError(st) ==
    IF st.DestKind = "slice" /\ Len(st.Dest) = 0 THEN ErrEmptySlice ELSE ""

\* hasReturning
hasReturning(d, supportReturning) == supportReturning /\ "RETURNING" \in DOMAIN d.Statement.Clauses

RECURSIVE DistributeForward_NoAdvance(_, _, _, _)
\* a forward loop that gives every zero primary the same insertID
DistributeForward_NoAdvance(records, i, insertID, step) ==
    IF i > Len(records) THEN records
    ELSE IF records[i].ID = 0
         THEN DistributeForward_NoAdvance([records EXCEPT ![i].ID = insertID], i + 1,
                                          insertID, step)
         ELSE DistributeForward_NoAdvance(records, i + 1, insertID, step)

RECURSIVE DistributeForward(_, _, _, _)
\* the forward loop over the slice: a zero primary takes insertID, which then
\* advances by the auto-increment step
DistributeForward(records, i, insertID, step) ==
    IF i > Len(records) THEN records
    ELSE IF records[i].ID = 0
         THEN DistributeForward([records EXCEPT ![i].ID = insertID], i + 1, insertID + step, step)
         ELSE DistributeForward(records, i + 1, insertID, step)

RECURSIVE DistributeReversed(_, _, _, _)
\* the reversed loop: from the last element to the first, stepping down
DistributeReversed(records, i, insertID, step) ==
    IF i < 1 THEN records
    ELSE IF records[i].ID = 0
         THEN DistributeReversed([records EXCEPT ![i].ID = insertID], i - 1, insertID - step, step)
         ELSE DistributeReversed(records, i - 1, insertID, step)

\* callbacks.Create, after the statement is built: the RETURNING query, or the
\* exec and the distribution of the last insert id
CreateExec(d, config, res) ==
    IF d.Config.DryRun \/ d.Error # NoError THEN Out(d, <<>>, <<>>)
    ELSE IF hasReturning(d, config.supportReturning)
    THEN IF res.err = ""
         THEN Out([d EXCEPT !.RowsAffected = res.rows], <<"Query">>, <<>>)
         ELSE Out(AddError(d, res.err), <<"Query">>, <<>>)
    ELSE IF res.err # "" THEN Out(AddError(d, res.err), <<"Exec">>, <<>>)
    ELSE LET st == d.Statement
             d1 == [d EXCEPT !.RowsAffected = res.rows]
         IN IF res.rows # 0 /\ st.Schema.Present /\ st.Schema.PrioritizedPrimaryField
               /\ st.Schema.HasDefaultValue /\ res.lastID > 0
            THEN Out([d1 EXCEPT !.Statement.Dest =
                        IF config.LastInsertIDReversed /\ st.DestKind = "slice"
                        THEN DistributeReversed(st.Dest, Len(st.Dest), res.lastID,
                                                st.Schema.AutoIncrementIncrement)
                        ELSE DistributeForward(st.Dest, 1, res.lastID,
                                               st.Schema.AutoIncrementIncrement)],
                     <<"Exec">>, <<>>)
            ELSE Out(d1, <<"Exec">>, <<>>)

\* callbacks.Create
Create(d, config, res) ==
    IF d.Error # NoError THEN Out(d, <<>>, <<>>)
    ELSE
      LET st == d.Statement
          c1 == IF st.Schema.Present /\ ~st.Unscoped
                THEN AddClauses(st.Clauses, st.Schema.CreateClauses) ELSE st.Clauses
          c2 == IF st.Schema.Present /\ config.supportReturning
                   /\ st.Schema.FieldsWithDefaultDBValue /\ "RETURNING" \notin DOMAIN c1
                THEN AddClause(c1, [Kind |-> "Returning", Exprs |-> <<>>]) ELSE c1
          d2 == [d EXCEPT !.Statement.Clauses = c2]
      IN IF st.SQL = <<>>
         THEN LET c3 == AddClauseIfNotExists(c2, [Kind |-> "Insert", Exprs |-> <<>>])
                  c4 == AddClause(c3, [Kind |-> "Values", Exprs |-> <<>>])
                  d4 == AddError([d EXCEPT !.Statement.Clauses = c4,
                                           !.Statement.SQL = BuildNames(c4, config.CreateClauses)],
                                 ConvertToCreateValuesError(st))
              IN CreateExec(d4, config, res)
         ELSE CreateExec(d2, config, res)

----------------------------------------------------------------------------
(* The chains of RegisterDefaultCallbacks and their execution *)

\* a create chain that commits before the stages after the INSERT
CreateChain_CommitEarly(enableTransaction) ==
    (IF enableTransaction THEN <<"gorm:begin_transaction">> ELSE <<>>)
    \o <<"gorm:before_create", "gorm:save_before_associations", "gorm:create">>
    \o (IF enableTransaction THEN <<"gorm:commit_or_rollback_transaction">> ELSE <<>>)
    \o <<"gorm:save_after_associations", "gorm:after_create">>

\* the stages registered with Match(enableTransaction) are part of a chain
\* only when the handle the callbacks were registered on has default
\* transactions enabled
CreateChain(enableTransaction) ==
    (IF enableTransaction THEN <<"gorm:begin_transaction">> ELSE <<>>)
    \o <<"gorm:before_create", "gorm:save_before_associations", "gorm:create",
         "gorm:save_after_associations", "gorm:after_create">>
    \o (IF enableTransaction THEN <<"gorm:commit_or_rollback_transaction">> ELSE <<>>)

DeleteChain(enableTransaction) ==
    (IF enableTransaction THEN <<"gorm:begin_transaction">> ELSE <<>>)
    \o <<"gorm:before_delete", "gorm:delete_before_associations", "gorm:delete",
         "gorm:after_delete">>
    \o (IF enableTransaction THEN <<"gorm:commit_or_rollback_transaction">> ELSE <<>>)

\* the chains without a transaction stage
QueryChain == <<"gorm:query", "gorm:preload", "gorm:after_query">>
RowChain == <<"gorm:row">>
RawChain == <<"gorm:raw">>

HookError == "hook error"
Errs(e) == {"", e}

\* the destinations of an operation: one record, or a slice of records
Records == [ID : {0, 1}]
Dests ==
    {[DestKind |-> "struct", Dest |-> <<r>>] : r \in Records}
    \cup {[DestKind |-> "slice", Dest |-> s] : s \in UNION {[1 .. n -> Records] : n \in 0 .. MaxDest}}

\* Statement.Model after Execute: the destination itself, or another record
Models == {[Kind |-> "dest", ID |-> 0], [Kind |-> "other", ID |-> 0], [Kind |-> "other", ID |-> 1]}

Condition == [Kind |-> "Where", Exprs |-> <<[Kind |-> "Expr", SQL |-> "name = ?", Vars |-> <<"a">>]>>]

NoClauses == [n \in {} |-> NoExpression]

\* a parsed schema.Schema, as far as the chains read it
SchemaOf(present, flags, delClauses, step) ==
    [Present |-> present,
     BeforeSave |-> "BeforeSave" \in flags, BeforeCreate |-> "BeforeCreate" \in flags,
     AfterCreate |-> "AfterCreate" \in flags, AfterSave |-> "AfterSave" \in flags,
     BeforeDelete |-> "BeforeDelete" \in flags, AfterDelete |-> "AfterDelete" \in flags,
     DeleteClauses |-> delClauses, CreateClauses |-> <<>>,
     FieldsWithDefaultDBValue |-> present, PrioritizedPrimaryField |-> present,
     HasDefaultValue |-> present, AutoIncrementIncrement |-> step]

Schemas(o) ==
    {SchemaOf(FALSE, {}, <<>>, 1)}
    \cup IF o = "delete"
         THEN {SchemaOf(TRUE, f, <<>>, 1) : f \in SUBSET {"BeforeDelete", "AfterDelete"}}
              \cup {SchemaOf(TRUE, {}, <<Condition>>, 1)}
         ELSE {SchemaOf(TRUE, f, <<>>, 1) :
                 f \in {{"BeforeSave", "BeforeCreate"}, {"BeforeCreate", "AfterCreate"},
                        {"AfterCreate", "AfterSave"}}}
              \cup {SchemaOf(TRUE, {}, <<>>, st) : st \in {1, 2}}

\* the handle and statement Execute starts a chain on
Handle(skip, dry, dst, m, un, sh, cl, sql, cp, sch) ==
    [Config |-> [SkipDefaultTransaction |-> skip, DryRun |-> dry, ConnPool |-> "pool"],
     Error |-> NoError, RowsAffected |-> 0,
     Statement |-> [Dest |-> dst.Dest, DestKind |-> dst.DestKind, Model |-> m,
                    Unscoped |-> un, SkipHooks |-> sh, Clauses |-> cl, SQL |-> sql,
                    ConnPool |-> cp, Settings |-> {}, Schema |-> sch]]

CallbacksConfig(ret, rev) ==
    [supportReturning |-> ret, LastInsertIDReversed |-> rev,
     CreateClauses |-> IF ret THEN Append(createClauses, "RETURNING") ELSE createClauses]

InitChain ==
    /\ op \in {"create", "delete"}
    /\ \E enable \in BOOLEAN :
         /\ fns = IF op = "create" THEN CreateChain(enable) ELSE DeleteChain(enable)
         /\ \E skip \in {s \in BOOLEAN : ~enable => s}, dry \in BOOLEAN, dst \in Dests,
               sh \in BOOLEAN, sql \in {<<>>, <<"RAW">>}, cp \in {"pool", "outerTx"},
               sch \in Schemas(op) :
              IF op = "delete"
              THEN /\ \E m \in Models, un \in BOOLEAN,
                         cl \in {NoClauses, AddClause(NoClauses, Condition)} :
                        db = Handle(skip, dry, dst, m, un, sh, cl, sql, cp, sch)
                   /\ cb = CallbacksConfig(FALSE, FALSE)
              ELSE /\ db = Handle(skip, dry, dst, [Kind |-> "dest", ID |-> 0], FALSE, sh,
                                  NoClauses, sql, cp, sch)
                   /\ \E ret \in BOOLEAN, rev \in BOOLEAN : cb = CallbacksConfig(ret, rev)
    /\ db0 = db
    /\ pc = 1
    /\ pool = <<>>
    /\ hooks = <<>>
    /\ IdleCache /\ IdleSession /\ IdleBuilder /\ IdleCalls

\* processor.Execute runs the stages of the chain in the registered order
Stage(name) == pc <= Len(fns) /\ fns[pc] = name

Ran(r) ==
    /\ db' = r.db
    /\ pool' = pool \o r.io
    /\ hooks' = hooks \o r.calls
    /\ pc' = pc + 1
    /\ UNCHANGED <<op, fns, cb, db0>>
    /\ UNCHANGED notChain

HookReturns(ms) == [(1 .. Len(db.Statement.Dest)) \X ms -> Errs(HookError)]

ExecResults == [err : Errs("exec error"), rows : {0, 1}, lastID : {0, 10}]

RunBeginTransaction ==
    /\ Stage("gorm:begin_transaction")
    /\ \E e \in Errs("begin error") : Ran(BeginTransaction(db, e))

RunBeforeCreate ==
    /\ Stage("gorm:before_create")
    /\ \E ret \in HookReturns({"BeforeSave", "BeforeCreate"}) : Ran(BeforeCreate(db, ret))

RunCreate ==
    /\ Stage("gorm:create")
    /\ \E res \in ExecResults : Ran(Create(db, cb, res))

RunAfterCreate ==
    /\ Stage("gorm:after_create")
    /\ \E ret \in HookReturns({"AfterCreate", "AfterSave"}) : Ran(AfterCreate(db, ret))

RunBeforeDelete ==
    /\ Stage("gorm:before_delete")
    /\ \E ret \in HookReturns({"BeforeDelete"}) : Ran(BeforeDelete(db, ret))

RunDelete ==
    /\ Stage("gorm:delete")
    /\ \E res \in ExecResults : Ran(Delete(db, res))

RunAfterDelete ==
    /\ Stage("gorm:after_delete")
    /\ \E ret \in HookReturns({"AfterDelete"}) : Ran(AfterDelete(db, ret))

RunAssociations ==
    /\ pc <= Len(fns)
    /\ fns[pc] \in {"gorm:save_before_associations", "gorm:save_after_associations",
                    "gorm:delete_before_associations"}
    /\ Ran(Associations(db))

RunCommitOrRollbackTransaction ==
    /\ Stage("gorm:commit_or_rollback_transaction")
    /\ \E e \in Errs("end error") : Ran(CommitOrRollbackTransaction(db, e))

NextChain ==
    \/ RunBeginTransaction
    \/ RunBeforeCreate
    \/ RunCreate
    \/ RunAfterCreate
    \/ RunBeforeDelete
    \/ RunDelete
    \/ RunAfterDelete
    \/ RunAssociations
    \/ RunCommitOrRollbackTransaction

SpecChain == InitChain /\ [][NextChain]_vars

Done == pc = Len(fns) + 1

----------------------------------------------------------------------------
(* Properties of the chains *)

Range(s) == {s[i] : i \in DOMAIN s}

\* the pool operations a step issued
Issued == SubSeq(pool', Len(pool) + 1, Len(pool'))

StageRan(name) == \E i \in 1 .. pc - 1 : fns[i] = name

\* the statement the chain started on has no WHERE clause: no conditions
\* given (by the caller or by the schema), no primary values on destination
\* or model, no SQL built beforehand
NoWhere(d) ==
    /\ "WHERE" \notin DOMAIN d.Statement.Clauses
    /\ d.Statement.Schema.DeleteClauses = <<>>
    /\ PrimaryValues(d.Statement.Dest) = <<>>
    /\ PrimaryValues(<<d.Statement.Model>>) = <<>>
    /\ d.Statement.SQL = <<>>

\* C1 as stated: a delete on a statement without WHERE ends with the
\* missing-where-clause error, and no operation is ever started on the pool
C1_NoPoolOperation ==
    (op = "delete" /\ NoWhere(db0)) =>
        /\ pool = <<>>
        /\ Done => db.Error = <<ErrMissingWhereClause>>

\* C1, amended: a delete on a statement without WHERE never issues an exec or
\* a query; the delete stage, reached without an error, records
\* missing-where-clause, and the chain ends with an error; the only pool
\* operations are the begin of the begin-transaction stage and the rollback of
\* that transaction, and none at all when default transactions are skipped
C1_NoStatementExecuted ==
    (op = "delete" /\ NoWhere(db0)) =>
        /\ Range(pool) \cap {"Exec", "Query", "Commit"} = {}
        /\ pool \in {<<>>, <<"BeginTx">>, <<"BeginTx failed">>, <<"BeginTx", "Rollback">>}
        /\ db0.Config.SkipDefaultTransaction => pool = <<>>
        /\ StageRan("gorm:delete") =>
             /\ db.Error # NoError
             /\ db.Error[1] \in {ErrMissingWhereClause, "begin error", HookError}
             /\ db.Error[1] = ErrMissingWhereClause \/ ErrMissingWhereClause \notin Range(db.Error)
             /\ (hooks = <<>> /\ "BeginTx failed" \notin Range(pool))
                  => db.Error[1] = ErrMissingWhereClause

C1_Witness ==
    /\ op = "delete" /\ NoWhere(db0) /\ Done
    /\ db.Error = <<ErrMissingWhereClause>>
    /\ pool = <<"BeginTx", "Rollback">>

Count(s, x) == Cardinality({i \in DOMAIN s : s[i] = x})

\* C2: a transaction opened by the begin-transaction stage is ended exactly
\* once, by the commit-or-rollback stage, with a rollback if the handle's error
\* is non-nil when that stage runs and a commit otherwise; when no transaction
\* was opened, that stage neither commits nor rolls back
C2_TransactionEndedOnce ==
    /\ [][IF Stage("gorm:commit_or_rollback_transaction")
          THEN Issued = IF "BeginTx" \notin Range(pool) THEN <<>>
                        ELSE IF db.Error # NoError THEN <<"Rollback">> ELSE <<"Commit">>
          ELSE Range(Issued) \cap {"Commit", "Rollback"} = {}]_vars
    /\ []((Done /\ "BeginTx" \in Range(pool))
            => Count(pool, "Commit") + Count(pool, "Rollback") = 1)

C2_Witness ==
    /\ Done /\ op = "create"
    /\ pool = <<"BeginTx", "Exec", "Rollback">>
    /\ db.Error = <<HookError>>

\* C3: once the handle's error is non-nil, no later stage invokes a hook
\* method or issues an exec or a query on the pool
C3_ShortCircuit ==
    [][db.Error # NoError
         => /\ hooks' = hooks
            /\ Range(Issued) \cap {"Exec", "Query"} = {}]_vars

\* a before-delete hook returned an error, and the DELETE was not executed
C3_Witness ==
    /\ Done /\ op = "delete" /\ ~db.Config.DryRun
    /\ "WHERE" \in DOMAIN db0.Statement.Clauses
    /\ hooks = <<<<1, "BeforeDelete">>>>
    /\ db.Error # NoError /\ db.Error[1] = HookError
    /\ "Exec" \notin Range(pool)

----------------------------------------------------------------------------
(* The schema cache: schema.ParseWithSpecialTableName *)

Types == {"A", "B"}
TableNames == {"", "x"}

\* the goroutines that parse through one cache, one parse call each
Threads == {1, 2, 3}

\* what the parse of a record type meets: no error, an error of a field
\* (ParseField sets schema.err), or an error of its relationship field
Failures == {"none", "field", "relation"}

\* the cache key: the type, or the type and the table name when one is given
schemaCacheKey(modelType, specialTableName) ==
    IF specialTableName # "" THEN modelType \o "-" \o specialTableName ELSE modelType

Keys == {schemaCacheKey(t, n) : t \in Types, n \in TableNames}

\* sync.Map
Load(m, key) == m[key]
LoadOrStore_Store(m, key, v) == [actual |-> v, loaded |-> FALSE, m |-> [m EXCEPT ![key] = v]]
LoadOrStore(m, key, v) ==
    IF m[key] # 0 THEN [actual |-> m[key], loaded |-> TRUE, m |-> m]
    ELSE [actual |-> v, loaded |-> FALSE, m |-> [m EXCEPT ![key] = v]]
MapDelete(m, key) == [m EXCEPT ![key] = 0]

\* <-s.initialized can proceed
Initialized_NoWait(s) == TRUE
Initialized(s) == schemas[s].initialized

InitCache ==
    /\ models \in [Types -> [rel : Types \cup {"none"}, fails : Failures]]
    /\ models["A"].fails # "field" /\ models["B"].fails # "relation"
    /\ models["B"].rel # "B"
    /\ cacheStore = [k \in Keys |-> 0]
    /\ schemas = <<>>
    /\ threads = [p \in Threads |-> <<>>]
    /\ returned = {}
    /\ started = {}
    /\ IdleChain /\ IdleSession /\ IdleBuilder /\ IdleCalls

Frame(modelType, key) ==
    [modelType |-> modelType, key |-> key, pc |-> "Load", schema |-> 0, s |-> 0,
     blocked |-> FALSE]

Top(p) == threads[p][Len(threads[p])]

\* the address of the Schema that the running call of goroutine p allocates
NewSchema(p) == 10 * p + Len(threads[p])
At(p, where) == threads[p] # <<>> /\ Top(p).pc = where
SetTop(p, f) == [threads EXCEPT ![p][Len(threads[p])] = f]

\* a caller starts Parse / ParseWithSpecialTableName (the goroutines are
\* numbered in the order they start)
ParseWithSpecialTableName(p) ==
    /\ threads[p] = <<>>
    /\ p \notin started
    /\ \A q \in Threads : q < p => q \in started
    /\ \E t \in Types, n \in TableNames :
         threads' = [threads EXCEPT ![p] = <<Frame(t, schemaCacheKey(t, n))>>]
    /\ started' = started \cup {p}
    /\ UNCHANGED <<models, cacheStore, schemas, returned>>
    /\ UNCHANGED notCache

\* an entry found in the cache is waited for
Found(p, s) ==
    SetTop(p, [Top(p) EXCEPT !.s = s, !.pc = "Wait",
                             !.blocked = ~schemas[s].initialized])

\* the first Load; without an entry the call allocates its Schema
LoadExisting(p) ==
    /\ At(p, "Load")
    /\ IF Load(cacheStore, Top(p).key) # 0
       THEN /\ threads' = Found(p, Load(cacheStore, Top(p).key))
            /\ UNCHANGED schemas
       ELSE /\ schemas' = schemas @@ (NewSchema(p) :>
                                         [key |-> Top(p).key, initialized |-> FALSE, err |-> ""])
            /\ threads' = SetTop(p, [Top(p) EXCEPT !.schema = NewSchema(p), !.pc = "Load2"])
    /\ UNCHANGED <<models, cacheStore, returned, started>>
    /\ UNCHANGED notCache

\* the second Load; without an entry the call parses the fields
LoadAgain(p) ==
    /\ At(p, "Load2")
    /\ IF Load(cacheStore, Top(p).key) # 0
       THEN /\ threads' = Found(p, Load(cacheStore, Top(p).key))
            /\ UNCHANGED schemas
       ELSE /\ threads' = SetTop(p, [Top(p) EXCEPT !.pc = "LoadOrStore"])
            /\ schemas' = IF models[Top(p).modelType].fails = "field"
                          THEN [schemas EXCEPT ![Top(p).schema].err = "field error"]
                          ELSE schemas
    /\ UNCHANGED <<models, cacheStore, returned, started>>
    /\ UNCHANGED notCache

\* parseRelation of the relationship field of the running call: the related
\* type is parsed through the same cache; without such a field the relations
\* are done, with the error they may have met
parseRelation(p, top) ==
    LET m == models[top.modelType]
    IN IF m.rel # "none"
       THEN [threads |-> [threads EXCEPT ![p] =
                            Append(SubSeq(@, 1, Len(@) - 1), [top EXCEPT !.pc = "Relations"])
                            \o <<Frame(m.rel, schemaCacheKey(m.rel, ""))>>],
             schemas |-> schemas]
       ELSE [threads |-> SetTop(p, [top EXCEPT !.pc = "Deferred"]),
             schemas |-> IF m.fails = "relation"
                         THEN [schemas EXCEPT ![top.schema].err = "relation error"]
                         ELSE schemas]

\* LoadOrStore: the Schema is published and its relations are parsed, unless
\* another call published one first
Publish(p) ==
    /\ At(p, "LoadOrStore")
    /\ LET r == LoadOrStore(cacheStore, Top(p).key, Top(p).schema)
       IN /\ cacheStore' = r.m
          /\ IF r.loaded /\ r.actual # Top(p).schema
             THEN /\ threads' = Found(p, r.actual)
                  /\ UNCHANGED schemas
             ELSE /\ threads' = parseRelation(p, Top(p)).threads
                  /\ schemas' = parseRelation(p, Top(p)).schemas
    /\ UNCHANGED <<models, returned, started>>
    /\ UNCHANGED notCache

\* the deferred function registered after publishing: a failed parse deletes
\* the entry of the type
DeferredDelete(p) ==
    /\ At(p, "Deferred")
    /\ cacheStore' = IF schemas[Top(p).schema].err # ""
                     THEN MapDelete(cacheStore, Top(p).modelType) ELSE cacheStore
    /\ threads' = SetTop(p, [Top(p) EXCEPT !.pc = "Close"])
    /\ UNCHANGED <<models, schemas, returned, started>>
    /\ UNCHANGED notCache

\* a call returns (s, err): to its caller, or to the parseRelation that made it
Return(p, sch, s) ==
    LET st == threads[p]
        n == Len(st)
        err == sch[s].err
    IN /\ returned' = returned \cup {[key |-> st[n].key, schema |-> s, err |-> err,
                                     blocked |-> st[n].blocked]}
       /\ IF n = 1
          THEN /\ threads' = [threads EXCEPT ![p] = <<>>]
               /\ schemas' = sch
          ELSE /\ threads' = [threads EXCEPT ![p] =
                                Append(SubSeq(st, 1, n - 2), [st[n - 1] EXCEPT !.pc = "Deferred"])]
               /\ schemas' = IF err # ""
                             THEN [sch EXCEPT ![st[n - 1].schema].err = err]
                             ELSE IF models[st[n - 1].modelType].fails = "relation"
                             THEN [sch EXCEPT ![st[n - 1].schema].err = "relation error"]
                             ELSE sch

\* the deferred close(schema.initialized) of a call that published its Schema
Close(p) ==
    /\ At(p, "Close")
    /\ Return(p, [schemas EXCEPT ![Top(p).schema].initialized = TRUE], Top(p).schema)
    /\ UNCHANGED <<models, cacheStore, started>>
    /\ UNCHANGED notCache

\* <-s.initialized, then return s, s.err; a Schema the call allocated itself is
\* closed by its deferred close
Wait(p) ==
    /\ At(p, "Wait")
    /\ Initialized(Top(p).s)
    /\ Return(p, IF Top(p).schema # 0
                 THEN [schemas EXCEPT ![Top(p).schema].initialized = TRUE]
                 ELSE schemas, Top(p).s)
    /\ UNCHANGED <<models, cacheStore, started>>
    /\ UNCHANGED notCache

NextCache ==
    \E p \in Threads :
        \/ ParseWithSpecialTableName(p)
        \/ LoadExisting(p)
        \/ LoadAgain(p)
        \/ Publish(p)
        \/ DeferredDelete(p)
        \/ Close(p)
        \/ Wait(p)

SpecCache == InitCache /\ [][NextCache]_vars

----------------------------------------------------------------------------
(* Properties of the schema cache *)

\* C4: for one cache key, every parse call that returned without error
\* returned the same Schema object, and no call returned a Schema whose
\* completion signal had not fired
C4_SameSchema ==
    /\ \A r1, r2 \in returned :
         (r1.key = r2.key /\ r1.err = "" /\ r2.err = "") => r1.schema = r2.schema
    /\ \A r \in returned : schemas[r.schema].initialized

\* three calls for one key returned the same Schema without error, one of
\* them after it had found the entry still being parsed
C4_Witness ==
    /\ \A p \in Threads : p \in started /\ threads[p] = <<>>
    /\ \E r1, r2 \in returned :
         /\ r1.key = r2.key /\ r1.schema = r2.schema
         /\ r1.err = "" /\ r2.err = ""
         /\ r1.blocked /\ ~r2.blocked
    /\ \E k \in Keys : \A r \in returned : r.key = k

\* C5: for every cache key, a Schema whose parse failed is no longer in the
\* cache once its completion signal has fired
C5_FailedEntryRemoved ==
    \A s \in DOMAIN schemas :
        (schemas[s].initialized /\ schemas[s].err # "")
            => Load(cacheStore, schemas[s].key) # s

----------------------------------------------------------------------------
(* Sessions: DB.Session, DB.getInstance and Statement.clone. The handles,    *)
(* their Configs and Statements, the maps and the backing arrays of the      *)
(* slices live on a heap: each kind is a sequence of objects and an address  *)
(* is an index into it (0 is nil).                                           *)

NoSlice == [arr |-> 0, len |-> 0, cap |-> 0]

\* the elements of a slice
Elems(H, sl) == IF sl.len = 0 THEN <<>> ELSE SubSeq(H.Arrays[sl.arr], 1, sl.len)

\* make([]T, len(sl)) and copy, for a slice that is not empty
CopySlice(H, sl) ==
    IF sl.len > 0
    THEN [heap |-> [H EXCEPT !.Arrays = Append(@, Elems(H, sl))],
          slice |-> [arr |-> Len(H.Arrays) + 1, len |-> sl.len, cap |-> sl.len]]
    ELSE [heap |-> H, slice |-> NoSlice]

\* append(sl, v): in place while the array has room, else into a new array of
\* twice the capacity
AppendSlice(H, sl, v) ==
    IF sl.len < sl.cap
    THEN [heap |-> [H EXCEPT !.Arrays[sl.arr][sl.len + 1] = v],
          slice |-> [sl EXCEPT !.len = @ + 1]]
    ELSE LET cap == IF sl.cap = 0 THEN 1 ELSE 2 * sl.cap
         IN [heap |-> [H EXCEPT !.Arrays =
                         Append(@, Elems(H, sl) \o <<v>>
                                   \o [i \in 1 .. cap - sl.len - 1 |-> "zero"])],
             slice |-> [arr |-> Len(H.Arrays) + 1, len |-> sl.len + 1, cap |-> cap]]

\* a Statement.clone whose copy keeps the Clauses map of the original
clone_SharedClauses(H, s) ==
    LET stmt == H.Statements[s]
        j == CopySlice(H, stmt.Joins)
        sc == CopySlice(j.heap, stmt.scopes)
        newStmt == [DB |-> 0, ConnPool |-> stmt.ConnPool, Context |-> stmt.Context,
                    Clauses |-> stmt.Clauses, Preloads |-> Len(H.Maps) + 1,
                    Joins |-> j.slice, scopes |-> sc.slice, SkipHooks |-> stmt.SkipHooks]
    IN [heap |-> [sc.heap EXCEPT
                    !.Maps = Append(@, IF stmt.Preloads = 0 THEN <<>> ELSE H.Maps[stmt.Preloads]),
                    !.Statements = Append(@, newStmt)],
        stmt |-> Len(H.Statements) + 1]

\* Statement.clone: new Clauses and Preloads maps with the entries of the
\* original, new arrays for the joins and the scopes
clone(H, s) ==
    LET stmt == H.Statements[s]
        j == CopySlice(H, stmt.Joins)
        sc == CopySlice(j.heap, stmt.scopes)
        newStmt == [DB |-> 0, ConnPool |-> stmt.ConnPool, Context |-> stmt.Context,
                    Clauses |-> Len(H.Maps) + 1, Preloads |-> Len(H.Maps) + 2,
                    Joins |-> j.slice, scopes |-> sc.slice, SkipHooks |-> stmt.SkipHooks]
    IN [heap |-> [sc.heap EXCEPT
                    !.Maps = @ \o <<H.Maps[stmt.Clauses],
                                    IF stmt.Preloads = 0 THEN <<>> ELSE H.Maps[stmt.Preloads]>>,
                    !.Statements = Append(@, newStmt)],
        stmt |-> Len(H.Statements) + 1]

\* DB.getInstance
getInstance(H, h) ==
    LET d == H.DBs[h]
        tx == Len(H.DBs) + 1
        new == [Config |-> d.Config, Statement |-> Len(H.Statements) + 1,
                Error |-> d.Error, clone |-> 0]
        c == clone(H, d.Statement)
    IN IF d.clone > 0
       THEN IF d.clone = 1
            THEN [heap |-> [H EXCEPT
                              !.DBs = Append(@, new),
                              !.Maps = Append(@, <<>>),
                              !.Statements =
                                 Append(@, [DB |-> tx,
                                            ConnPool |-> H.Statements[d.Statement].ConnPool,
                                            Context |-> H.Statements[d.Statement].Context,
                                            Clauses |-> Len(H.Maps) + 1, Preloads |-> 0,
                                            Joins |-> NoSlice, scopes |-> NoSlice,
                                            SkipHooks |-> FALSE])],
                  db |-> tx]
            ELSE [heap |-> [c.heap EXCEPT !.DBs = Append(@, new),
                                          !.Statements[c.stmt].DB = tx],
                  db |-> tx]
       ELSE [heap |-> H, db |-> h]

\* a Session that writes the settings into its receiver and returns it
Session_InPlace(H, h, config) ==
    [heap |-> [H EXCEPT !.Configs[H.DBs[h].Config].DryRun = @ \/ config.DryRun,
                        !.Statements[H.DBs[h].Statement].SkipHooks = @ \/ config.SkipHooks],
     db |-> h]

\* DB.Session (PrepareStmt not set)
Session(H, h, config) ==
    LET d == H.DBs[h]
        tx == Len(H.DBs) + 1
        txConfig == [H.Configs[d.Config] EXCEPT !.DryRun = @ \/ config.DryRun]
        H1 == [H EXCEPT !.Configs = Append(@, txConfig),
                        !.DBs = Append(@, [Config |-> Len(H.Configs) + 1,
                                           Statement |-> d.Statement,
                                           Error |-> d.Error, clone |-> 1])]
        c == clone(H1, d.Statement)
        H2 == IF config.Context # "" \/ config.SkipHooks
              THEN [c.heap EXCEPT !.DBs[tx].Statement = c.stmt, !.Statements[c.stmt].DB = tx]
              ELSE H1
        st == H2.DBs[tx].Statement
        H3 == IF config.Context # "" THEN [H2 EXCEPT !.Statements[st].Context = config.Context]
              ELSE H2
        H4 == IF config.SkipHooks THEN [H3 EXCEPT !.Statements[st].SkipHooks = TRUE] ELSE H3
        H5 == IF ~config.NewDB THEN [H4 EXCEPT !.DBs[tx].clone = 2] ELSE H4
    IN IF config.Initialized THEN getInstance(H5, tx) ELSE [heap |-> H5, db |-> tx]

\* the handle and the Statement that Open leaves
InitSession ==
    /\ heap = [Configs |-> <<[DryRun |-> FALSE]>>,
               DBs |-> <<[Config |-> 1, Statement |-> 1, Error |-> NoError, clone |-> 1]>>,
               Statements |-> <<[DB |-> 1, ConnPool |-> "pool", Context |-> "background",
                                 Clauses |-> 1, Preloads |-> 0, Joins |-> NoSlice,
                                 scopes |-> NoSlice, SkipHooks |-> FALSE]>>,
               Maps |-> <<<<>>>>,
               Arrays |-> <<>>]
    /\ last = [op |-> "Open", db |-> 0, tx |-> 1, added |-> 0]
    /\ sessions = <<>>
    /\ IdleChain /\ IdleCache /\ IdleBuilder /\ IdleCalls

\* the Session configs of the callers; no Context is "". DryRun stands for
\* the settings that Session only writes into the Config copy
SessionConfigs ==
    {c \in [NewDB : BOOLEAN, SkipHooks : BOOLEAN, Initialized : BOOLEAN, DryRun : BOOLEAN,
            Context : {"", "ctx"}] :
        (c.DryRun \/ c.Context # "")
            => (~c.SkipHooks /\ ~c.Initialized /\ ~c.NewDB /\ ~(c.DryRun /\ c.Context # ""))}

\* a call on the handle that the call before returned, as in a method chain
Called(name, r, n) ==
    /\ Len(r.heap.DBs) <= MaxHandles
    /\ last.added + n <= MaxAdded
    /\ heap' = r.heap
    /\ last' = [op |-> name, db |-> last.tx, tx |-> r.db, added |-> last.added + n]
    /\ UNCHANGED notSession

\* db.Session(config)
CallSession ==
    \E config \in SessionConfigs :
        \E r \in {Session(heap, last.tx, config)} :
            /\ Called("Session", r, 0)
            /\ sessions' = (r.db :> config) @@ sessions

\* db.getInstance(), the first step of every method of the chainable API
CallGetInstance ==
    \E r \in {getInstance(heap, last.tx)} :
        /\ Called("getInstance", r, 0)
        /\ UNCHANGED sessions

StatementOf(H, h) == H.DBs[h].Statement

\* db.Where(query, args): getInstance, then Statement.AddClause of the conditions
Where ==
    \E r \in {getInstance(heap, last.tx)} :
        LET m == r.heap.Statements[StatementOf(r.heap, r.db)].Clauses
            clauses == AddClause(r.heap.Maps[m], Condition)
        IN /\ Called("Where", [r EXCEPT !.heap.Maps[m] = clauses], 1)
           /\ UNCHANGED sessions

\* db.Preload(query): getInstance, then the entry of the Preloads map, which
\* is made when the Statement has none
Preload ==
    \E r \in {getInstance(heap, last.tx)} :
        LET st == StatementOf(r.heap, r.db)
            m == r.heap.Statements[st].Preloads
        IN /\ Called("Preload",
                     IF m = 0
                     THEN [r EXCEPT !.heap.Maps = Append(@, ("Orders" :> <<>>)),
                                    !.heap.Statements[st].Preloads = Len(r.heap.Maps) + 1]
                     ELSE [r EXCEPT !.heap.Maps[m] = ("Orders" :> <<>>) @@ @], 1)
           /\ UNCHANGED sessions

\* db.Joins(query): getInstance, then append to Statement.Joins
Joins ==
    \E r \in {getInstance(heap, last.tx)} :
        \E a \in {AppendSlice(r.heap, r.heap.Statements[StatementOf(r.heap, r.db)].Joins,
                              "Company")} :
            /\ Called("Joins", [r EXCEPT !.heap = [a.heap EXCEPT
                                   !.Statements[StatementOf(r.heap, r.db)].Joins = a.slice]], 1)
            /\ UNCHANGED sessions

\* db.Scopes(func): getInstance, then append to Statement.scopes
Scopes ==
    \E r \in {getInstance(heap, last.tx)} :
        \E a \in {AppendSlice(r.heap, r.heap.Statements[StatementOf(r.heap, r.db)].scopes,
                              "scope")} :
            /\ Called("Scopes", [r EXCEPT !.heap = [a.heap EXCEPT
                                    !.Statements[StatementOf(r.heap, r.db)].scopes = a.slice]], 1)
            /\ UNCHANGED sessions

NextSession ==
    \/ CallSession
    \/ CallGetInstance
    \/ Where
    \/ Preload
    \/ Joins
    \/ Scopes

SpecSession == InitSession /\ [][NextSession]_vars

----------------------------------------------------------------------------
(* Properties of the sessions *)

\* what a Statement holds: its clauses, preloads, joins and scopes
Deep(H, s) ==
    LET stmt == H.Statements[s]
    IN [Clauses |-> H.Maps[stmt.Clauses],
        Preloads |-> IF stmt.Preloads = 0 THEN <<>> ELSE H.Maps[stmt.Preloads],
        Joins |-> Elems(H, stmt.Joins),
        scopes |-> Elems(H, stmt.scopes)]

\* the Statement of handle h belongs to no other handle and shares no map and
\* no array with another Statement
Fresh(H, h) ==
    LET s == StatementOf(H, h)
        stmt == H.Statements[s]
    IN /\ \A g \in DOMAIN H.DBs : g # h => StatementOf(H, g) # s
       /\ stmt.DB = h
       /\ \A t \in DOMAIN H.Statements :
            t # s => /\ H.Statements[t].Clauses # stmt.Clauses
                     /\ stmt.Preloads # 0 => H.Statements[t].Preloads # stmt.Preloads
                     /\ stmt.Joins.arr # 0 => H.Statements[t].Joins.arr # stmt.Joins.arr
                     /\ stmt.scopes.arr # 0 => H.Statements[t].scopes.arr # stmt.scopes.arr

Additions == {"Where", "Preload", "Joins", "Scopes"}

\* C6: getInstance returns the same handle for clone 0, a new handle with an
\* empty statement that has only the pool and the context of the source for
\* clone 1, and a new handle with a copy of the statement for clone 2; and an
\* addition of a clause, preload, join or scope changes what the statement of
\* the handle it returns holds and nothing of any other statement, which for a
\* source of clone 1 or 2 is a new one
C6_CloneDiscipline ==
    /\ [](last.op = "getInstance" =>
            LET src == heap.DBs[last.db]
                ss == heap.Statements[src.Statement]
                rs == heap.Statements[StatementOf(heap, last.tx)]
            IN /\ src.clone = 0 => last.tx = last.db
               /\ src.clone > 0 =>
                    /\ last.tx # last.db /\ Fresh(heap, last.tx)
                    /\ heap.DBs[last.tx].clone = 0
                    /\ rs.ConnPool = ss.ConnPool /\ rs.Context = ss.Context
               /\ src.clone = 1 =>
                    /\ Deep(heap, StatementOf(heap, last.tx))
                         = [Clauses |-> <<>>, Preloads |-> <<>>, Joins |-> <<>>, scopes |-> <<>>]
                    /\ ~rs.SkipHooks
               /\ src.clone = 2 =>
                    /\ Deep(heap, StatementOf(heap, last.tx)) = Deep(heap, src.Statement)
                    /\ rs.SkipHooks = ss.SkipHooks)
    /\ [][last'.op \in Additions =>
            /\ \A s \in DOMAIN heap.Statements :
                 s # StatementOf(heap', last'.tx) => Deep(heap', s) = Deep(heap, s)
            /\ heap.DBs[last'.db].clone > 0
                 => StatementOf(heap', last'.tx) \notin DOMAIN heap.Statements]_vars

\* a join was added through a handle of clone 2 whose statement holds a
\* condition: the returned statement holds both, the source the condition only
C6_Witness ==
    /\ last.op = "Joins" /\ heap.DBs[last.db].clone = 2
    /\ Deep(heap, StatementOf(heap, last.db)).Joins = <<>>
    /\ "WHERE" \in DOMAIN Deep(heap, StatementOf(heap, last.db)).Clauses
    /\ Deep(heap, StatementOf(heap, last.tx)).Joins = <<"Company">>
    /\ "WHERE" \in DOMAIN Deep(heap, StatementOf(heap, last.tx)).Clauses

\* C7: the statement that getInstance produces from the handle returned by a
\* Session with SkipHooks set, NewDB or not, has SkipHooks set
C7_SkipHooksCarried ==
    (/\ last.op \in Additions \cup {"getInstance"}
     /\ last.db \in DOMAIN sessions
     /\ sessions[last.db].SkipHooks)
        => heap.Statements[StatementOf(heap, last.tx)].SkipHooks

----------------------------------------------------------------------------
(* The statement builder: Statement.AddVar, clause.Expr.Build, the WHERE     *)
(* clause and its conditions.                                                *)
(*                                                                           *)
(* An SQL text is the sequence of its pieces. In a raw SQL text the mark ?,  *)
(* the parenthesis ( and the words " AND ", " OR " are pieces of their own:  *)
(* they are what the byte scan of Expr.Build and the search of buildExprs    *)
(* look for. A builder is the SQL buffer and the Vars of a Statement; Named  *)
(* is a history field: how many of the Vars the sql.NamedArg case pushed.    *)

Scalar(x) == [T |-> "scalar", v |-> x]
Nil == [T |-> "nil"]
NamedArg(value) == [T |-> "sql.NamedArg", Value |-> value]
Column(name) == [T |-> "clause.Column", Name |-> name]
DriverValuer(x) == [T |-> "driver.Valuer", v |-> x]
Bytes(bs) == [T |-> "[]byte", elems |-> bs]
Interfaces(vs) == [T |-> "[]interface{}", elems |-> vs]
Slice(vs) == [T |-> "slice", elems |-> vs]
SubExpression(e) == [T |-> "clause.Expression", Expr |-> e]
SubStatement(sql, vs) == [T |-> "*DB", SQL |-> sql, Vars |-> vs]

Expr(sql, vs) == [Kind |-> "Expr", SQL |-> sql, Vars |-> vs, WithoutParentheses |-> FALSE]
AndConditions(exprs) == [Kind |-> "And", Exprs |-> exprs]
OrConditions(exprs) == [Kind |-> "Or", Exprs |-> exprs]
NotConditions(exprs) == [Kind |-> "Not", Exprs |-> exprs]

\* the constructors clause.And, clause.Or, clause.Not
And(exprs) ==
    IF Len(exprs) = 0 THEN NoExpression
    ELSE IF Len(exprs) = 1 /\ exprs[1].Kind # "Or" THEN exprs[1]
    ELSE AndConditions(exprs)

Or(exprs) == IF Len(exprs) = 0 THEN NoExpression ELSE OrConditions(exprs)

Not(exprs) == IF Len(exprs) = 0 THEN NoExpression ELSE NotConditions(exprs)

AndWithSpace == " AND "
OrWithSpace == " OR "

\* strings.ToUpper, on the pieces that the search looks for
ToUpper(piece) ==
    CASE piece = " and " -> AndWithSpace
      [] piece = " or " -> OrWithSpace
      [] OTHER -> piece

\* strings.Contains(strings.ToUpper(sql), " AND ") || ... " OR ")
ContainsAndOr(sql) == \E i \in DOMAIN sql : ToUpper(sql[i]) \in {AndWithSpace, OrWithSpace}

NewBuilder == [SQL |-> <<>>, Vars |-> <<>>, Named |-> 0]

\* Statement.WriteString, Statement.WriteByte
WriteString(S, str) == [S EXCEPT !.SQL = Append(@, str)]

\* Dialector.BindVarTo: the placeholder of the variable pushed last
BindVarTo(S, v) == WriteString(S, "$" \o ToString(Len(S.Vars)))

\* stmt.Vars = append(stmt.Vars, v), then BindVarTo
Bind(S, v) == BindVarTo([S EXCEPT !.Vars = Append(@, v)], v)

\* an AddVar that writes a placeholder for a named argument too
AddNamedArg_Bind(S, v) == [Bind(S, v.Value) EXCEPT !.Named = @ + 1]

\* AddVar of a sql.NamedArg: the value is pushed, nothing is written
AddNamedArg(S, v) == [S EXCEPT !.Vars = Append(@, v.Value), !.Named = @ + 1]

\* Statement.QuoteTo of a column name
QuoteTo(S, name) == WriteString(S, "\"" \o name \o "\"")

\* strings.Replace(sql, old, new, 1)
RECURSIVE Replace(_, _, _)
Replace(sql, old, new) ==
    IF sql = <<>> THEN <<>>
    ELSE IF Head(sql) = old THEN <<new>> \o Tail(sql)
    ELSE <<Head(sql)>> \o Replace(Tail(sql), old, new)

\* the loop of AddVar over the Vars of a sub-statement: each bind variable of
\* its SQL text becomes a ? again
RECURSIVE Unbind(_, _)
Unbind(sql, n) ==
    IF n = 0 THEN sql ELSE Replace(Unbind(sql, n - 1), "$" \o ToString(n), "?")

ReflectSlice == {"slice", "[]interface{}", "[]byte"}

\* a splice that keeps only the variables the sub-statement added
Splice_OwnVars(S, sub) ==
    [sub EXCEPT !.SQL = S.SQL \o sub.SQL,
                !.Vars = SubSeq(sub.Vars, Len(S.Vars) + 1, Len(sub.Vars))]

\* the end of the *DB case of AddVar: the text of the sub-statement is
\* written and its Vars, which began as stmt.Vars, become stmt.Vars
Splice(S, sub) == [sub EXCEPT !.SQL = S.SQL \o sub.SQL]

\* an AddVar that binds NULL for an empty slice
EmptySlice_Bind(S) == Bind(S, Nil)

\* AddVar of an empty slice: the text (NULL), no variable
EmptySlice(S) == WriteString(S, "(NULL)")

RECURSIVE AddVar(_, _)
RECURSIVE AddVars(_, _, _)
RECURSIVE ExprBuild(_, _, _, _, _)
RECURSIVE AddNamedArgs(_, _, _)
RECURSIVE buildExprs(_, _, _, _)
RECURSIVE NotBuild(_, _, _)
RECURSIVE Build(_, _)

\* Statement.AddVar(writer, v) for one value. A sub-statement has its SQL
\* built already (as after Raw), without named arguments.
AddVar(S, v) ==
    CASE v.T = "sql.NamedArg" -> AddNamedArg(S, v)
      [] v.T = "clause.Column" -> QuoteTo(S, v.Name)
      [] v.T = "clause.Expression" -> Build(S, v.Expr)
      [] v.T = "driver.Valuer" -> Bind(S, v)
      [] v.T = "[]byte" -> Bind(S, v)
      [] v.T = "[]interface{}" ->
           IF Len(v.elems) > 0
           THEN WriteString(AddVars(WriteString(S, "("), v.elems, 1), ")")
           ELSE WriteString(S, "(NULL)")
      [] v.T = "*DB" ->
           LET sub == ExprBuild([S EXCEPT !.SQL = <<>>],
                                Expr(Unbind(v.SQL, Len(v.Vars)), v.Vars), 1, 0, FALSE)
           IN Splice(S, sub)
      [] v.T = "slice" ->
           IF Len(v.elems) = 0
           THEN EmptySlice(S)
           ELSE WriteString(AddVars(WriteString(S, "("), v.elems, 1), ")")
      [] OTHER -> Bind(S, v)

\* Statement.AddVar(writer, vars...): the values from the i-th on, with a
\* comma before each but the first
AddVars(S, vs, i) ==
    IF i > Len(vs) THEN S
    ELSE AddVars(AddVar(IF i > 1 THEN WriteString(S, ",") ELSE S, vs[i]), vs, i + 1)

\* the end of Expr.Build: the variables that no ? consumed are added as
\* named arguments
AddNamedArgs(S, vs, i) ==
    IF i > Len(vs) THEN S ELSE AddNamedArgs(AddVar(S, NamedArg(vs[i])), vs, i + 1)

\* Expr.Build from the i-th piece of the SQL text on, with idx variables
\* consumed so far
ExprBuild(S, expr, i, idx, afterParenthesis) ==
    IF i > Len(expr.SQL)
    THEN AddNamedArgs(S, expr.Vars, idx + 1)
    ELSE IF expr.SQL[i] = "?" /\ Len(expr.Vars) > idx
    THEN LET v == expr.Vars[idx + 1]
             S1 == IF afterParenthesis \/ expr.WithoutParentheses
                   THEN IF v.T = "driver.Valuer" THEN AddVar(S, v)
                        ELSE IF v.T \in ReflectSlice
                        THEN IF Len(v.elems) = 0 THEN AddVar(S, Nil)
                             ELSE AddVars(S, v.elems, 1)
                        ELSE AddVar(S, v)
                   ELSE AddVar(S, v)
         IN ExprBuild(S1, expr, i + 1, idx + 1, afterParenthesis)
    ELSE ExprBuild(WriteString(S, expr.SQL[i]), expr, i + 1, idx, expr.SQL[i] = "(")

\* a buildExprs that wraps every expression in parentheses
wrapInParentheses_Always(expr) == TRUE

\* whether buildExprs wraps the expression in parentheses, among several
wrapInParentheses(expr) ==
    CASE expr.Kind \in {"Or", "And"} ->
           /\ Len(expr.Exprs) = 1
           /\ expr.Exprs[1].Kind = "Expr"
           /\ ContainsAndOr(expr.Exprs[1].SQL)
      [] expr.Kind = "Expr" -> ContainsAndOr(expr.SQL)
      [] OTHER -> FALSE

\* buildExprs from the i-th expression on
buildExprs(S, exprs, joinCond, i) ==
    IF i > Len(exprs) THEN S
    ELSE LET expr == exprs[i]
             S1 == IF i > 1
                   THEN WriteString(S, IF expr.Kind = "Or" /\ Len(expr.Exprs) = 1
                                       THEN OrWithSpace ELSE joinCond)
                   ELSE S
             S2 == IF Len(exprs) > 1 /\ wrapInParentheses(expr)
                   THEN WriteString(Build(WriteString(S1, "("), expr), ")")
                   ELSE Build(S1, expr)
         IN buildExprs(S2, exprs, joinCond, i + 1)

\* the loop of NotConditions.Build from the i-th expression on; the
\* expressions built here (Expr, And, Or, Not) have no NegationBuild
NotBuild(S, exprs, i) ==
    IF i > Len(exprs) THEN S
    ELSE LET c == exprs[i]
             S1 == WriteString(IF i > 1 THEN WriteString(S, AndWithSpace) ELSE S, "NOT ")
             wrap == c.Kind = "Expr" /\ ContainsAndOr(c.SQL)
             S2 == IF wrap THEN WriteString(Build(WriteString(S1, "("), c), ")")
                   ELSE Build(S1, c)
         IN NotBuild(S2, exprs, i + 1)

\* Expression.Build of Expr, AndConditions, OrConditions, NotConditions
Build(S, expr) ==
    CASE expr.Kind = "Expr" -> ExprBuild(S, expr, 1, 0, FALSE)
      [] expr.Kind = "And" ->
           IF Len(expr.Exprs) > 1
           THEN WriteString(buildExprs(WriteString(S, "("), expr.Exprs, AndWithSpace, 1), ")")
           ELSE buildExprs(S, expr.Exprs, AndWithSpace, 1)
      [] expr.Kind = "Or" ->
           IF Len(expr.Exprs) > 1
           THEN WriteString(buildExprs(WriteString(S, "("), expr.Exprs, OrWithSpace, 1), ")")
           ELSE buildExprs(S, expr.Exprs, OrWithSpace, 1)
      [] OTHER ->
           IF Len(expr.Exprs) > 1
           THEN WriteString(NotBuild(WriteString(S, "("), expr.Exprs, 1), ")")
           ELSE NotBuild(S, expr.Exprs, 1)

\* the text of an SQL buffer
RECURSIVE Text(_)
Text(sql) == IF sql = <<>> THEN "" ELSE Head(sql) \o Text(Tail(sql))

\* the loop of Where.Build: the position of the first expression that is not
\* an OR of one expression (0: there is none)
RECURSIVE FirstNotSingleOr(_, _)
FirstNotSingleOr(exprs, idx) ==
    IF idx > Len(exprs) THEN 0
    ELSE IF exprs[idx].Kind # "Or" \/ Len(exprs[idx].Exprs) > 1 THEN idx
    ELSE FirstNotSingleOr(exprs, idx + 1)

\* where.Exprs[0], where.Exprs[idx] = where.Exprs[idx], where.Exprs[0]
SwitchPosition(exprs) ==
    LET idx == FirstNotSingleOr(exprs, 1)
    IN IF idx > 1 THEN [exprs EXCEPT ![1] = exprs[idx], ![idx] = exprs[1]] ELSE exprs

\* Where.Build, on the expressions as the switch left them
WhereBuild(S, exprs) == buildExprs(S, SwitchPosition(exprs), AndWithSpace, 1)

\* Clause.Build: the name of the clause, a space, the expression
ClauseBuild(S, name, exprs) == WhereBuild(WriteString(S, name \o " "), exprs)

\* Statement.BuildCondition of a query string that holds ? marks
BuildCondition(query, args) == <<Expr(query, args)>>

\* the conditions of the chain methods Where, Or and Not
WhereConditions(query, args) == BuildCondition(query, args)
OrCondition(query, args) == <<Or(<<And(BuildCondition(query, args))>>)>>
NotCondition(query, args) == <<Not(BuildCondition(query, args))>>

----------------------------------------------------------------------------
(* The statement builder as a state machine: WHERE clauses are added to one *)
(* Statement, values are added with AddVar, the WHERE clause is built.      *)

AgeOver == WhereConditions(<<"age > ", "?">>, <<Scalar("18")>>)
OrRole == OrCondition(<<"role = ", "?">>, <<Scalar("admin")>>)
NotDeleted == NotCondition(<<"deleted = ", "?">>, <<Scalar("true")>>)

\* the expression lists of the clause.Where values that are added
WhereInputs ==
    {AgeOver, OrRole, NotDeleted,
     WhereConditions(<<"a = ", "?", " or ", "b = ", "?">>, <<Scalar("1"), Scalar("2")>>),
     <<Or(<<Expr(<<"c = 1">>, <<>>), Expr(<<"d = ", "?">>, <<Scalar("3")>>)>>)>>,
     WhereConditions(<<"name = ", "?">>, <<Scalar("a"), Scalar("b")>>)}

\* scenario S3: the raw condition "id IN ?" with an empty slice, and the same
\* condition with the mark in parentheses
S3Args == <<SubExpression(Expr(<<"id IN ", "?">>, <<Slice(<<>>)>>))>>
S3ParenArgs == <<SubExpression(Expr(<<"id IN ", "(", "?", ")">>, <<Slice(<<>>)>>))>>

\* the arguments of the direct call of AddVar
VarInputs ==
    {S3Args, S3ParenArgs, <<Scalar("1")>>, <<Nil>>, <<NamedArg(Scalar("n"))>>, <<Column("id")>>,
     <<DriverValuer("t")>>, <<Bytes(<<Scalar("0"), Scalar("1")>>)>>,
     <<Interfaces(<<>>)>>, <<Interfaces(<<Scalar("1"), Slice(<<Scalar("2")>>)>>)>>,
     <<Slice(<<>>), Scalar("1")>>,
     <<SubExpression(Expr(<<"x IN ", "(", "?", ")">>, <<Bytes(<<>>)>>))>>,
     <<SubExpression(Expr(<<"id IN ", "(", "?", ")">>, <<Slice(<<Scalar("1"), Scalar("2")>>)>>))>>,
     <<SubStatement(<<"SELECT id FROM t WHERE a = ", "$1", " AND b = ", "$2">>,
                    <<Scalar("a"), Scalar("b")>>)>>}

\* a new Statement: no clauses, an empty SQL buffer, no Vars. args is the input
\* of the run: the arguments that AddVar is called with. The fields built,
\* builtOf and addVars are history: whether Build ran, how many WHERE clauses
\* had been added when it ran, how many direct calls of AddVar were made.
InitBuilder ==
    /\ backing = <<>>
    /\ \E vs \in VarInputs :
          statement = [Where |-> 0, Builder |-> NewBuilder, args |-> vs,
                       built |-> FALSE, builtOf |-> 0, addVars |-> 0]
    /\ wheres = <<>>
    /\ IdleChain /\ IdleCache /\ IdleSession /\ IdleCalls

\* the "WHERE" entry of stmt.Clauses
WhereClause ==
    IF statement.Where = 0 THEN NoClauses
    ELSE [n \in {"WHERE"} |->
            [Name |-> "WHERE",
             Expression |-> [Kind |-> "Where", Exprs |-> backing[statement.Where]]]]

\* stmt.AddClause(clause.Where{Exprs: exprs}): the caller's slice is a new
\* array; MergeClause makes another one when the statement has a WHERE
\* already, and stores the caller's slice when it has none
StatementAddClause(exprs) ==
    /\ Len(wheres) < MaxWheres
    /\ LET merged == AddClause(WhereClause, [Kind |-> "Where", Exprs |-> exprs])
           arrays == IF statement.Where = 0 THEN Append(backing, exprs)
                     ELSE backing \o <<exprs, merged["WHERE"].Expression.Exprs>>
       IN /\ backing' = arrays
          /\ statement' = [statement EXCEPT !.Where = Len(arrays)]
          /\ wheres' = Append(wheres, [Exprs |-> Len(backing) + 1, was |-> exprs])
    /\ UNCHANGED notBuilder

\* stmt.AddVar(stmt, args...)
StatementAddVar ==
    /\ statement.addVars = 0
    /\ statement' = [statement EXCEPT !.Builder = AddVars(@, statement.args, 1),
                                      !.addVars = @ + 1]
    /\ UNCHANGED <<backing, wheres>>
    /\ UNCHANGED notBuilder

\* stmt.Build("WHERE"), once: the switch of Where.Build is made in the array
\* that the stored clause refers to
StatementBuild ==
    /\ statement.Where # 0
    /\ ~statement.built
    /\ backing' = [backing EXCEPT ![statement.Where] = SwitchPosition(@)]
    /\ statement' = [statement EXCEPT
                        !.Builder = ClauseBuild(@, "WHERE", backing[statement.Where]),
                        !.built = TRUE, !.builtOf = Len(wheres)]
    /\ UNCHANGED wheres
    /\ UNCHANGED notBuilder

NextBuilder ==
    \/ \E exprs \in WhereInputs : StatementAddClause(exprs)
    \/ StatementAddVar
    \/ StatementBuild

SpecBuilder == InitBuilder /\ [][NextBuilder]_vars

----------------------------------------------------------------------------
(* Properties of the statement builder *)

\* the bind placeholders in an SQL buffer that holds n variables
Placeholders(sql, n) ==
    Cardinality({i \in DOMAIN sql : \E k \in 1..n : sql[i] = "$" \o ToString(k)})

Stored == IF statement.Where = 0 THEN <<>> ELSE backing[statement.Where]

RECURSIVE Concat(_)
Concat(lists) == IF lists = <<>> THEN <<>> ELSE Head(lists) \o Concat(Tail(lists))

\* the expression lists given to AddClause, as they were given
Given == [i \in DOMAIN wheres |-> wheres[i].was]

\* merge of two expression lists: the second is added to a clause holding the first
Merge(A, B) ==
    WhereMergeClause([Kind |-> "Where", Exprs |-> B],
                     [Name |-> "WHERE", Expression |-> [Kind |-> "Where", Exprs |-> A]]
                    ).Expression.Exprs

\* C9: each AddClause of a WHERE leaves every existing expression array as it
\* was and stores the earlier expressions followed by the new ones; until the
\* statement is built the stored list is the lists given, in the order given,
\* each operand still holding what it was given with; and merging is associative
C9_MergeConcatenates ==
    /\ [][Len(wheres') > Len(wheres) =>
            /\ \A a \in DOMAIN backing : backing'[a] = backing[a]
            /\ backing'[statement'.Where] = Stored \o wheres'[Len(wheres')].was
            /\ backing'[wheres'[Len(wheres')].Exprs] = wheres'[Len(wheres')].was]_vars
    /\ [](~statement.built =>
            /\ Stored = Concat(Given)
            /\ \A i \in DOMAIN wheres : backing[wheres[i].Exprs] = wheres[i].was)
    /\ [](\A B, C \in WhereInputs :
            Merge(Merge(Stored, B), C) = Merge(Stored, Merge(B, C)))

\* three WHERE clauses were added and merged
C9_Witness ==
    /\ Len(wheres) = MaxWheres
    /\ ~statement.built
    /\ Len(Stored) >= 3
    /\ Stored[1] # Stored[2]

\* scenario S2 was built: the three conditions were added in order, the WHERE
\* was built, nothing else went into the SQL buffer
S2Built ==
    /\ Given = <<AgeOver, OrRole, NotDeleted>>
    /\ statement.built
    /\ statement.builtOf = 3
    /\ statement.addVars = 0

S2Vars == <<Scalar("18"), Scalar("admin"), Scalar("true")>>

\* C10 as stated: scenario S2 renders with the OR pair grouped in parentheses
\* and the negated raw condition parenthesised
C10_S2AsStated ==
    S2Built =>
        /\ Text(statement.Builder.SQL)
               = "WHERE ((age > $1) OR role = $2) AND NOT (deleted = $3)"
        /\ statement.Builder.Vars = S2Vars

\* C10, amended: scenario S2 renders without parentheses, the OR of one raw
\* condition joined with OR and the NOT joined with AND, and the variables are
\* 18, "admin", true in that order
C10_S2Rendered ==
    S2Built =>
        /\ Text(statement.Builder.SQL)
               = "WHERE age > $1 OR role = $2 AND NOT deleted = $3"
        /\ statement.Builder.Vars = S2Vars

C10_Witness == S2Built /\ Len(statement.Builder.Vars) = 3

\* AddVar was called with args and nothing else went into the SQL buffer
Added(args) == statement.args = args /\ statement.addVars = 1 /\ ~statement.built

\* C11 as stated: the raw condition "id IN ?" with an empty slice renders as
\* id IN ($1) and binds exactly one variable, NULL
C11_S3AsStated ==
    Added(S3Args) =>
        /\ Text(statement.Builder.SQL) = "id IN ($1)"
        /\ statement.Builder.Vars = <<Nil>>

\* C11, amended: the raw condition "id IN ?" with an empty slice renders as
\* id IN (NULL) and binds no variable; with the mark in parentheses, "id IN (?)",
\* it renders as id IN ($1) and binds the one variable NULL
C11_S3Rendered ==
    /\ Added(S3Args) =>
          /\ Text(statement.Builder.SQL) = "id IN (NULL)"
          /\ statement.Builder.Vars = <<>>
    /\ Added(S3ParenArgs) =>
          /\ Text(statement.Builder.SQL) = "id IN ($1)"
          /\ statement.Builder.Vars = <<Nil>>

C11_Witness == Added(S3Args) /\ Text(statement.Builder.SQL) = "id IN (NULL)"

----------------------------------------------------------------------------
(* One call of callbacks.Create on a slice of records: the inputs are drawn *)
(* when the run starts, the call is the one step.                           *)

\* the records to insert: a zero primary, or a primary set by the caller
InsertRecords == [ID : {0, 7}]

InsertSlices == UNION {[1 .. n -> InsertRecords] : n \in 0 .. MaxRecords}

InitCreation ==
    /\ \E dest \in InsertSlices, dry \in BOOLEAN, step \in {1, 2}, rev \in BOOLEAN,
          res \in ExecResults :
         creation = [db |-> Handle(TRUE, dry, [DestKind |-> "slice", Dest |-> dest],
                                   [Kind |-> "dest", ID |-> 0], FALSE, FALSE, NoClauses,
                                   <<>>, "pool", SchemaOf(TRUE, {}, <<>>, step)),
                     config |-> CallbacksConfig(FALSE, rev),
                     res |-> res,
                     done |-> FALSE,
                     out |-> <<>>]
    /\ IdleSystems
    /\ parsing = <<>> /\ scanning = <<>> /\ conversion = <<>>

\* the handler registered as gorm:create is called
CallCreate ==
    /\ ~creation.done
    /\ creation' = [creation EXCEPT
                       !.out = Create(creation.db, creation.config, creation.res),
                       !.done = TRUE]
    /\ UNCHANGED notCreation

NextCreation == CallCreate

SpecCreation == InitCreation /\ [][NextCreation]_vars

\* the records before and after the call
Before == creation.db.Statement.Dest
After == creation.out.db.Statement.Dest

\* the insert was executed and reported rows and a last insert id L > 0
Inserted ==
    /\ creation.done
    /\ creation.out.io = <<"Exec">>
    /\ creation.res.err = ""
    /\ creation.res.rows # 0
    /\ creation.res.lastID > 0

\* the zero-primary elements among the elements at the positions in range
Zeros(range) == Cardinality({j \in range : Before[j].ID = 0})

\* C12: after a non-RETURNING insert of a slice with last insert id L > 0 and
\* step s, an element whose primary is non-zero keeps it; in forward mode a
\* zero-primary element receives L + i*s where i zero-primary elements precede
\* it; in reversed mode it receives L - i*s where i zero-primary elements
\* follow it; so 3 records with s = 1, L = 10 receive 10, 11, 12 in order,
\* and 10, 9, 8 from the last to the first when reversed
C12_LastInsertIDs ==
    Inserted =>
        LET L == creation.res.lastID
            st == creation.db.Statement.Schema.AutoIncrementIncrement
            n == Len(Before)
        IN /\ Len(After) = n
           /\ \A k \in 1 .. n :
                IF Before[k].ID # 0 THEN After[k].ID = Before[k].ID
                ELSE IF creation.config.LastInsertIDReversed
                THEN After[k].ID = L - Zeros(k + 1 .. n) * st
                ELSE After[k].ID = L + Zeros(1 .. k - 1) * st
           /\ (Before = [k \in 1 .. 3 |-> [ID |-> 0]] /\ st = 1 /\ L = 10) =>
                After = IF creation.config.LastInsertIDReversed
                        THEN <<[ID |-> 8], [ID |-> 9], [ID |-> 10]>>
                        ELSE <<[ID |-> 10], [ID |-> 11], [ID |-> 12]>>

\* three records without primary were inserted in reversed mode
C12_Witness ==
    /\ Inserted
    /\ creation.config.LastInsertIDReversed
    /\ Before = [k \in 1 .. 3 |-> [ID |-> 0]]
    /\ After[1].ID = 8

----------------------------------------------------------------------------
(* The fields of a schema: the loop of ParseWithSpecialTableName over       *)
(* schema.Fields, the election of the prioritized primary field, and the    *)
(* binding of the columns of a result set to fields in Scan.                *)
(* A field is referred to by its position in schema.Fields (0: nil).        *)

\* a schema.Field as ParseField leaves it: Depth is len(BindNames), Writable is
\* Creatable || Updatable. AutoIncrement is the AUTOINCREMENT tag, which sets
\* HasDefaultValue as well; DefaultValueInterface is 0 for nil; Int is a
\* GORMDataType of Int or Uint; Ignored is the tag "-".
Field(name, dbName, primaryKey, autoIncrement, readable, writable, depth) ==
    [Name |-> name, DBName |-> dbName, PrimaryKey |-> primaryKey,
     AutoIncrement |-> autoIncrement, Readable |-> readable, Writable |-> writable,
     Depth |-> depth, Creatable |-> writable, Ignored |-> FALSE,
     HasDefaultValue |-> autoIncrement, DefaultValueInterface |-> 0, Int |-> FALSE]

\* Field.BindName
BindName(f) == IF f.Depth = 1 THEN f.Name ELSE "Embedded." \o f.Name

\* field.Creatable || field.Updatable || field.Readable
Permitted(f) == f.Writable \/ f.Readable

\* a Schema before the loop over its fields
NewFields(fs) ==
    [Fields |-> fs, DBNames |-> <<>>, FieldsByDBName |-> <<>>, FieldsByName |-> <<>>,
     PrimaryFields |-> <<>>, PrioritizedPrimaryField |-> 0]

\* m[key] = v of a Go map
MapSet(m, key, v) == (key :> v) @@ m

\* the body of the loop over schema.Fields, for the i-th field
SetupField(sch, i) ==
    LET f == sch.Fields[i]
        known == f.DBName \in DOMAIN sch.FieldsByDBName
        v == IF known THEN sch.FieldsByDBName[f.DBName] ELSE 0
        s1 == IF f.DBName # "" /\ (~known \/ (Permitted(f) /\ f.Depth < sch.Fields[v].Depth))
              THEN [sch EXCEPT
                      !.DBNames = IF known THEN @ ELSE Append(@, f.DBName),
                      !.FieldsByDBName = MapSet(@, f.DBName, i),
                      !.FieldsByName = MapSet(@, f.Name, i),
                      !.PrimaryFields =
                          LET kept == IF v # 0 /\ sch.Fields[v].PrimaryKey
                                      THEN SelectSeq(@, LAMBDA x : x # v) ELSE @
                          IN IF f.PrimaryKey THEN Append(kept, i) ELSE kept]
              ELSE sch
    IN IF f.Name \notin DOMAIN s1.FieldsByName
          \/ s1.Fields[s1.FieldsByName[f.Name]].Ignored
       THEN [s1 EXCEPT !.FieldsByName = MapSet(@, f.Name, i)]
       ELSE s1

RECURSIVE SetupFields(_, _)
\* the loop over schema.Fields, from the i-th field on
SetupFields(sch, i) ==
    IF i > Len(sch.Fields) THEN sch ELSE SetupFields(SetupField(sch, i), i + 1)

\* Schema.LookUpField
LookUpField(sch, name) ==
    IF name \in DOMAIN sch.FieldsByDBName THEN sch.FieldsByDBName[name]
    ELSE IF name \in DOMAIN sch.FieldsByName THEN sch.FieldsByName[name]
    ELSE 0

\* an election that takes the field named id whenever there is one
ElectPrimary_AlwaysID(sch) ==
    LET byID == IF LookUpField(sch, "id") # 0 THEN LookUpField(sch, "id")
                ELSE LookUpField(sch, "ID")
    IN [sch EXCEPT !.PrioritizedPrimaryField = byID]

\* the election of schema.PrioritizedPrimaryField
ElectPrimary(sch) ==
    LET byID == IF LookUpField(sch, "id") # 0 THEN LookUpField(sch, "id")
                ELSE LookUpField(sch, "ID")
        s1 == IF byID # 0 /\ sch.Fields[byID].PrimaryKey
              THEN [sch EXCEPT !.PrioritizedPrimaryField = byID]
              ELSE IF byID # 0 /\ Len(sch.PrimaryFields) = 0
              THEN [sch EXCEPT !.Fields[byID].PrimaryKey = TRUE,
                               !.PrioritizedPrimaryField = byID,
                               !.PrimaryFields = Append(@, byID)]
              ELSE sch
        auto == SelectSeq(s1.PrimaryFields, LAMBDA x : s1.Fields[x].AutoIncrement)
    IN IF s1.PrioritizedPrimaryField # 0 THEN s1
       ELSE IF Len(s1.PrimaryFields) = 1
       THEN [s1 EXCEPT !.PrioritizedPrimaryField = s1.PrimaryFields[1]]
       ELSE IF Len(s1.PrimaryFields) > 1 /\ auto # <<>>
       THEN [s1 EXCEPT !.PrioritizedPrimaryField = auto[1]]
       ELSE s1

\* ParseWithSpecialTableName, from the loop over the fields to the election
ParseFields(fs) == ElectPrimary(SetupFields(NewFields(fs), 1))

\* the readable fields with the DBName column, in the order of schema.Fields
ReadableNamed(sch, column) ==
    SelectSeq([i \in 1 .. Len(sch.Fields) |-> i],
              LAMBDA i : sch.Fields[i].DBName = column /\ sch.Fields[i].Readable)

RECURSIVE BindColumns(_, _, _, _, _)
\* the loop of Scan over the columns of the result set, from the idx-th on:
\* fields[idx] is the field the column is scanned into (0: none)
BindColumns(sch, columns, idx, fields, matchedFieldCount) ==
    IF idx > Len(columns) THEN fields
    ELSE LET column == columns[idx]
             field == LookUpField(sch, column)
         IN IF field # 0 /\ sch.Fields[field].Readable
            THEN IF column \in DOMAIN matchedFieldCount
                 THEN LET count == matchedFieldCount[column]
                          named == ReadableNamed(sch, column)
                      IN IF count < Len(named)
                         THEN BindColumns(sch, columns, idx + 1,
                                          [fields EXCEPT ![idx] = named[count + 1]],
                                          MapSet(matchedFieldCount, column, count + 1))
                         ELSE BindColumns(sch, columns, idx + 1,
                                          [fields EXCEPT ![idx] = field], matchedFieldCount)
                 ELSE BindColumns(sch, columns, idx + 1, [fields EXCEPT ![idx] = field],
                                  MapSet(matchedFieldCount, column, 1))
            ELSE BindColumns(sch, columns, idx + 1, fields, matchedFieldCount)

\* the fields a record type may declare
FieldPool ==
    {Field("ID", "id", FALSE, FALSE, TRUE, TRUE, 1),
     Field("ID", "id", TRUE, FALSE, TRUE, TRUE, 1),
     Field("UUID", "uuid", TRUE, FALSE, TRUE, TRUE, 1),
     Field("A", "a", TRUE, FALSE, TRUE, TRUE, 1),
     Field("B", "b", TRUE, TRUE, TRUE, TRUE, 1),
     Field("Name", "name", FALSE, FALSE, TRUE, TRUE, 1),
     Field("Name", "name", FALSE, FALSE, TRUE, TRUE, 2),
     Field("Alias", "name", FALSE, FALSE, TRUE, TRUE, 1),
     Field("Secret", "name", FALSE, FALSE, FALSE, TRUE, 1)}

\* the record types: their fields in the order of declaration, no two with the
\* same path
FieldLists ==
    {fs \in UNION {[1 .. n -> FieldPool] : n \in 1 .. MaxFields} :
        \A i, j \in DOMAIN fs : i # j => BindName(fs[i]) # BindName(fs[j])}

\* the columns of the result set that is scanned
ColumnLists == {<<"id", "name">>, <<"name", "name">>, <<"name", "id", "name", "name">>}

InitParsing ==
    /\ \E fs \in FieldLists, columns \in ColumnLists :
         parsing = [fields |-> fs, columns |-> columns, stage |-> "declared",
                    schema |-> NewFields(fs), bound |-> <<>>]
    /\ IdleSystems
    /\ creation = <<>> /\ scanning = <<>> /\ conversion = <<>>

\* ParseWithSpecialTableName of the record type
Parse ==
    /\ parsing.stage = "declared"
    /\ parsing' = [parsing EXCEPT !.schema = ParseFields(parsing.fields),
                                  !.stage = "parsed"]
    /\ UNCHANGED notParsing

\* Scan of a result set into a record of the type: the fields of its columns
ScanColumns ==
    /\ parsing.stage = "parsed"
    /\ parsing' = [parsing EXCEPT
                      !.bound = BindColumns(parsing.schema, parsing.columns, 1,
                                            [i \in DOMAIN parsing.columns |-> 0], <<>>),
                      !.stage = "scanned"]
    /\ UNCHANGED notParsing

NextParsing == Parse \/ ScanColumns

SpecParsing == InitParsing /\ [][NextParsing]_vars

\* the positions of the declared fields that satisfy P
Declared(P(_)) == {i \in DOMAIN parsing.fields : P(parsing.fields[i])}

\* the least position of a non-empty set of positions
First(S) == CHOOSE i \in S : \A j \in S : i <= j

\* the name of the elected primary field ("": none)
Elected ==
    IF parsing.schema.PrioritizedPrimaryField = 0 THEN ""
    ELSE parsing.schema.Fields[parsing.schema.PrioritizedPrimaryField].Name

\* the declared fields, by name
DeclaredNames == [i \in DOMAIN parsing.fields |-> parsing.fields[i].Name]

\* C13: after parsing, the prioritized primary field is the field named ID/id
\* when that field is primary or no other primary field was declared;
\* otherwise the only primary field; otherwise, among several primary fields,
\* the first auto-increment one (none when none is auto-increment).  So
\* {ID, UUID primaryKey} elects UUID and {A primaryKey, B primaryKey
\* autoIncrement} elects B.
C13_PrimaryElection ==
    parsing # <<>> /\ parsing.stage # "declared" =>
        LET ids == Declared(LAMBDA f : f.DBName = "id")
            primary == Declared(LAMBDA f : f.PrimaryKey)
            auto == Declared(LAMBDA f : f.PrimaryKey /\ f.AutoIncrement)
            expected == IF ids # {} /\ (ids \subseteq primary \/ primary = {})
                        THEN First(ids)
                        ELSE IF Cardinality(primary) = 1 THEN First(primary)
                        ELSE IF auto # {} THEN First(auto)
                        ELSE 0
        IN /\ parsing.schema.PrioritizedPrimaryField = expected
           /\ DeclaredNames = <<"ID", "UUID">> /\ primary = {2} => Elected = "UUID"
           /\ DeclaredNames = <<"A", "B">> => Elected = "B"

\* {ID, UUID primaryKey} was parsed and UUID elected
C13_Witness ==
    /\ parsing # <<>> /\ parsing.stage = "parsed"
    /\ DeclaredNames = <<"ID", "UUID">>
    /\ ~parsing.fields[1].PrimaryKey
    /\ Elected = "UUID"

\* the readable declared fields with the DBName column, in declaration order
ReadableDeclared(column) ==
    SelectSeq([i \in DOMAIN parsing.fields |-> i],
              LAMBDA i : /\ parsing.fields[i].DBName = column
                         /\ parsing.fields[i].Readable)

\* the positions of the given column in the result set, in order
Occurrences(column) ==
    SelectSeq([i \in DOMAIN parsing.columns |-> i],
              LAMBDA i : parsing.columns[i] = column)

\* C14: when the result set has a column name k times and the record type at
\* least k readable fields with that DBName, the j-th occurrence is bound to
\* the j-th such field in field order, whatever the shape of the record type.
C14_DuplicateColumns ==
    parsing # <<>> /\ parsing.stage = "scanned" =>
        \A column \in {"id", "name"} :
            Len(Occurrences(column)) <= Len(ReadableDeclared(column)) =>
                \A j \in DOMAIN Occurrences(column) :
                    parsing.bound[Occurrences(column)[j]] = ReadableDeclared(column)[j]

----------------------------------------------------------------------------
(* Scan of a result set into the destination of a statement.  The result    *)
(* set is the sequence of its rows, the current row first; a row is what    *)
(* rows.Scan and field.Set return for it.                                   *)

ErrRecordNotFound == "ErrRecordNotFound"

\* what rows.Scan returns for a row: nil, a conversion error, or an error of
\* the driver
RowScanErrors == {"", "conversion error", "driver error"}

\* a row: the error of rows.Scan and the error of field.Set on its values
Row(scan, set) == [Scan |-> scan, Set |-> set]

\* no current row, rows.Next was not called: rows.Scan returns an error
NoRow == Row("Scan called without calling Next", "")

\* rows.Next when there is a further row: it becomes the current one
RowsNext(d) == IF d.Rows = <<>> THEN d ELSE [d EXCEPT !.Rows = Tail(@), !.Row = Head(d.Rows)]

\* initialized || rows.Next()
HasRow(d, initialized) == initialized \/ d.Rows # <<>>

\* the handle after initialized || rows.Next() said yes
Fetch(d, initialized) == IF initialized THEN d ELSE RowsNext(d)

\* a scanIntoStruct that drops the error of rows.Scan
scanIntoStruct_Silent(d) ==
    AddError([d EXCEPT !.RowsAffected = @ + 1], d.Row.Set)

\* DB.scanIntoStruct on the current row
scanIntoStruct(d) ==
    AddError(AddError([d EXCEPT !.RowsAffected = @ + 1], d.Row.Scan), d.Row.Set)

\* db.RowsAffected++; db.AddError(rows.Scan(...)) of the map and scalar cases
ScanRow(d) == AddError([d EXCEPT !.RowsAffected = @ + 1], d.Row.Scan)

RECURSIVE ScanEach(_, _)
\* the loops of the []map and scalar cases: every row is scanned and, for a
\* []map, appended
ScanEach(d, initialized) ==
    IF ~HasRow(d, initialized) THEN d
    ELSE LET d1 == ScanRow(Fetch(d, initialized))
         IN ScanEach(IF d.Statement.DestKind = "maps"
                     THEN [d1 EXCEPT !.Dest = Append(@, d1.Row)] ELSE d1, FALSE)

RECURSIVE ScanSlice(_, _, _)
\* the loop of the slice case; in update mode the elements of the slice are
\* written in place and Scan returns at the end of the slice
ScanSlice(d, initialized, update) ==
    IF ~HasRow(d, initialized) THEN d
    ELSE LET d0 == Fetch(d, initialized)
         IN IF update /\ d0.RowsAffected >= Len(d0.Dest)
            THEN [d0 EXCEPT !.Returned = TRUE]
            ELSE LET d1 == scanIntoStruct(d0)
                 IN ScanSlice(IF update
                              THEN [d1 EXCEPT !.Dest[d0.RowsAffected + 1] = d1.Row]
                              ELSE [d1 EXCEPT !.Dest = Append(@, d1.Row)],
                              FALSE, update)

\* the switch of Scan on the destination
ScanDest(d, initialized, update) ==
    CASE d.Statement.DestKind = "map" ->
            IF HasRow(d, initialized)
            THEN LET d1 == ScanRow(Fetch(d, initialized))
                 IN [d1 EXCEPT !.Dest = <<d1.Row>>]
            ELSE d
      [] d.Statement.DestKind \in {"maps", "scalar"} -> ScanEach(d, initialized)
      [] d.Statement.DestKind = "slice" ->
            IF ~update \/ Len(d.Dest) = 0
            THEN ScanSlice([d EXCEPT !.Dest = <<>>], initialized, FALSE)
            ELSE ScanSlice(d, initialized, TRUE)
      [] d.Statement.DestKind = "struct" ->
            IF HasRow(d, initialized)
            THEN LET d1 == scanIntoStruct(Fetch(d, initialized))
                 IN [d1 EXCEPT !.Dest = <<d1.Row>>]
            ELSE d
      [] OTHER -> AddError(d, d.Row.Scan)

\* a check that spares slices and maps
NotFound_ScalarOrRecord(d) ==
    IF /\ d.RowsAffected = 0 /\ d.Statement.RaiseErrorOnNotFound /\ d.Error = NoError
       /\ d.Statement.DestKind \in {"scalar", "struct", "named"}
    THEN AddError(d, ErrRecordNotFound) ELSE d

\* the end of Scan: record-not-found
NotFound(d) ==
    IF d.RowsAffected = 0 /\ d.Statement.RaiseErrorOnNotFound /\ d.Error = NoError
    THEN AddError(d, ErrRecordNotFound) ELSE d

\* Scan(rows, db, mode); err is what rows.Err() returns after the rows
Scan(d, err, initialized, update) ==
    LET d1 == ScanDest([d EXCEPT !.RowsAffected = 0], initialized, update)
        d2 == IF err # "" /\ d1.Error # <<err>> THEN AddError(d1, err) ELSE d1
    IN IF d1.Returned THEN d1 ELSE NotFound(d2)

\* the rows of a result set
RowSets ==
    UNION {[1 .. n -> {Row(scan, set) : scan \in RowScanErrors, set \in {"", "field error"}}] :
             n \in 0 .. MaxRows}

\* the destinations: a map, a slice of maps, a scalar, a slice of records (empty
\* or holding one), a record, and a value of a named scalar type
ScanDests ==
    {[DestKind |-> k, Dest |-> <<>>] : k \in {"map", "maps", "scalar", "slice", "struct", "named"}}
    \cup {[DestKind |-> "slice", Dest |-> <<Row("", "")>>]}

InitScanning ==
    /\ \E rows \in RowSets, dest \in ScanDests, raise \in BOOLEAN, initialized \in BOOLEAN,
          update \in BOOLEAN, earlier \in {"", "earlier error"}, err \in {"", "rows error"} :
         /\ initialized => rows # <<>>
         /\ update => dest.DestKind = "slice"
         /\ scanning = [db |-> [Error |-> IF earlier = "" THEN NoError ELSE <<earlier>>,
                                RowsAffected |-> 0,
                                Statement |-> [RaiseErrorOnNotFound |-> raise,
                                               DestKind |-> dest.DestKind],
                                Dest |-> dest.Dest,
                                Rows |-> IF initialized THEN Tail(rows) ELSE rows,
                                Row |-> IF initialized THEN Head(rows) ELSE NoRow,
                                Returned |-> FALSE],
                        rows |-> rows, err |-> err, initialized |-> initialized,
                        update |-> update, done |-> FALSE, out |-> <<>>]
    /\ IdleSystems
    /\ creation = <<>> /\ parsing = <<>> /\ conversion = <<>>

CallScan ==
    /\ ~scanning.done
    /\ scanning' = [scanning EXCEPT
                       !.out = Scan(scanning.db, scanning.err, scanning.initialized,
                                    scanning.update),
                       !.done = TRUE]
    /\ UNCHANGED notScanning

NextScanning == CallScan

SpecScanning == InitScanning /\ [][NextScanning]_vars

\* the errors recorded by the scan that satisfy P, in the order of recording
Recorded(P(_)) == SelectSeq(scanning.out.Error, P)

\* record-not-found was recorded by the scan
NotFoundRecorded == Recorded(LAMBDA e : e = ErrRecordNotFound) # <<>>

\* the scan ended with no row counted, an opted-in statement and no other error
NothingFound ==
    /\ scanning.out.RowsAffected = 0
    /\ scanning.db.Statement.RaiseErrorOnNotFound
    /\ Recorded(LAMBDA e : e # ErrRecordNotFound) = <<>>

\* C15 as stated: record-not-found is recorded exactly when no row was
\* scanned, the statement opted in, no other error is present and the
\* destination is a scalar or a record; never for a slice or a map.
C15_NotFoundAsStated ==
    scanning # <<>> /\ scanning.done =>
        (NotFoundRecorded <=>
            NothingFound /\ scanning.db.Statement.DestKind \in {"scalar", "struct", "named"})

\* C15: record-not-found is recorded exactly when the scan leaves the count of
\* rows at zero, the statement opted in and no other error is present,
\* whatever the destination: a slice or a map gets it as a scalar or a
\* record does.
C15_NotFound ==
    scanning # <<>> /\ scanning.done => (NotFoundRecorded <=> NothingFound)

\* a scan into a slice met no row, the statement had opted in, and
\* record-not-found was recorded
C15_Witness ==
    /\ scanning # <<>> /\ scanning.done
    /\ scanning.db.Statement.DestKind = "slice"
    /\ scanning.rows = <<>>
    /\ scanning.out.Error = <<ErrRecordNotFound>>

\* the scan appends to the slice (it does not update its elements in place)
Appending ==
    /\ scanning.db.Statement.DestKind = "slice"
    /\ ~(scanning.update /\ scanning.db.Dest # <<>>)

RECURSIVE RowErrors(_)
\* the errors of the given rows, in the order a scan of all of them meets them
RowErrors(rows) ==
    IF rows = <<>> THEN <<>>
    ELSE SelectSeq(<<Head(rows).Scan, Head(rows).Set>>, LAMBDA e : e # "")
         \o RowErrors(Tail(rows))

\* C20 as stated: in a scan into a slice, an error of the driver returned by
\* the scan of a row ends the scan: no row after it is fetched or appended.
C20_DriverErrorAborts ==
    scanning # <<>> /\ scanning.done /\ Appending =>
        \A i \in DOMAIN scanning.rows :
            scanning.rows[i].Scan = "driver error" =>
                /\ Len(scanning.out.Dest) <= i
                /\ scanning.out.RowsAffected <= i

\* C20: in a scan that appends to a slice, every error of a row, of the
\* driver or of a conversion, is recorded and the loop goes on: every row
\* of the result set is fetched, counted and appended.
C20_RowErrorsContinue ==
    scanning # <<>> /\ scanning.done /\ Appending =>
        /\ scanning.out.Rows = <<>>
        /\ scanning.out.Dest = scanning.rows
        /\ scanning.out.RowsAffected = Len(scanning.rows)
        /\ Recorded(LAMBDA e : e \notin {"earlier error", "rows error", ErrRecordNotFound})
             = RowErrors(scanning.rows)

\* the scan of the first of two rows returned an error of the driver, and
\* both rows were appended to the slice
C20_Witness ==
    /\ scanning # <<>> /\ scanning.done /\ Appending
    /\ Len(scanning.rows) = 2
    /\ scanning.rows[1].Scan = "driver error"
    /\ Len(scanning.out.Dest) = 2

\* the non-nil errors that a scan appending to a slice hands to AddError, the
\* error the handle came with first
Calls ==
    LET scanned == scanning.db.Error \o RowErrors(scanning.rows)
                   \o (IF scanning.err = "" THEN <<>> ELSE <<scanning.err>>)
    IN IF Len(scanning.rows) = 0 /\ scanning.db.Statement.RaiseErrorOnNotFound
          /\ scanned = NoError
       THEN <<ErrRecordNotFound>> ELSE scanned

RECURSIVE JoinErrors(_)
\* the texts of the given errors, "; " between them
JoinErrors(errs) ==
    IF errs = <<>> THEN ""
    ELSE IF Len(errs) = 1 THEN Head(errs)
    ELSE Head(errs) \o "; " \o JoinErrors(Tail(errs))

HasWhere(d) ==
    LET st == d.Statement
    IN \/ "WHERE" \in DOMAIN st.Clauses
       \/ /\ st.Schema.Present
          /\ \/ ~st.Unscoped /\ st.Schema.DeleteClauses # <<>>
             \/ PrimaryValues(st.Dest) # <<>>
             \/ st.Model.Kind = "other" /\ PrimaryValues(<<st.Model>>) # <<>>

\* the delete stage runs on a handle without error and has to build the SQL
DeleteStageBuilds == Stage("gorm:delete") /\ db.Error = NoError /\ db.Statement.SQL = <<>>

\* C17 as stated: the delete stage records missing-where-clause exactly when
\* the statement has neither the unscoped flag nor a WHERE clause.
C17_UnscopedOrWhere ==
    [][DeleteStageBuilds =>
         (ErrMissingWhereClause \in Range(db'.Error)
            <=> ~db.Statement.Unscoped /\ ~HasWhere(db))]_vars

\* C17: the delete stage records missing-where-clause exactly when the
\* statement has no WHERE clause, unscoped or not, and then builds and
\* executes nothing; with a WHERE clause it builds DELETE, FROM, WHERE in
\* that order and executes unless the run is dry.
C17_WhereRequired ==
    [][DeleteStageBuilds =>
         IF HasWhere(db)
         THEN /\ db'.Statement.SQL = <<"DELETE", "FROM", "WHERE">>
              /\ ErrMissingWhereClause \notin Range(db'.Error)
              /\ Issued = IF db.Config.DryRun THEN <<>> ELSE <<"Exec">>
         ELSE /\ db'.Error = <<ErrMissingWhereClause>>
              /\ db'.Statement.SQL = <<>>
              /\ Issued = <<>>]_vars

\* the delete stage ran on an unscoped statement without WHERE and recorded
\* missing-where-clause
C17_Witness ==
    /\ op = "delete" /\ StageRan("gorm:delete")
    /\ db0.Statement.Unscoped /\ ~HasWhere(db0) /\ db0.Statement.SQL = <<>>
    /\ db.Error = <<ErrMissingWhereClause>>

TransactionStages == {"gorm:begin_transaction", "gorm:commit_or_rollback_transaction"}

\* the stages of the chain that are not transaction stages, in chain order
Body == SelectSeq(fns, LAMBDA f : f \notin TransactionStages)

\* C18: the create chain runs begin-transaction, before-create,
\* save-before-associations, create, save-after-associations, after-create,
\* commit-or-rollback in that order, the delete chain begin-transaction,
\* before-delete, delete-before-associations, delete, after-delete,
\* commit-or-rollback; the two transaction stages are in the chain, first
\* and last, whenever default transactions are enabled and open or end a
\* transaction only then; the query, row and raw chains have no transaction
\* stage.
C18_ChainOrder ==
    /\ [](/\ op = "create" =>
                Body = <<"gorm:before_create", "gorm:save_before_associations", "gorm:create",
                         "gorm:save_after_associations", "gorm:after_create">>
          /\ op = "delete" =>
                Body = <<"gorm:before_delete", "gorm:delete_before_associations",
                         "gorm:delete", "gorm:after_delete">>
          /\ op \in {"create", "delete"} =>
                /\ fns \in {Body, <<"gorm:begin_transaction">> \o Body
                                    \o <<"gorm:commit_or_rollback_transaction">>}
                /\ ~db0.Config.SkipDefaultTransaction => fns # Body
                /\ (fns = Body \/ db0.Config.SkipDefaultTransaction) =>
                      Range(pool) \cap {"BeginTx", "BeginTx failed", "Commit", "Rollback"} = {}
          /\ Range(QueryChain \o RowChain \o RawChain) \cap TransactionStages = {})
    /\ [][/\ pc' = pc + 1
          /\ Range(Issued) \cap {"BeginTx", "BeginTx failed"} # {}
                => pc = 1 /\ fns[pc] = "gorm:begin_transaction"
          /\ Range(Issued) \cap {"Commit", "Rollback"} # {}
                => pc = Len(fns) /\ fns[pc] = "gorm:commit_or_rollback_transaction"
          /\ "Exec" \in Range(Issued) => fns[pc] \in {"gorm:create", "gorm:delete"}
          /\ \A i \in Len(hooks) + 1 .. Len(hooks') :
                fns[pc] = CASE hooks'[i][2] \in {"BeforeSave", "BeforeCreate"} -> "gorm:before_create"
                            [] hooks'[i][2] \in {"AfterCreate", "AfterSave"} -> "gorm:after_create"
                            [] hooks'[i][2] = "BeforeDelete" -> "gorm:before_delete"
                            [] hooks'[i][2] = "AfterDelete" -> "gorm:after_delete"]_vars

\* a create chain with its transaction ran to the end: the transaction was
\* begun, the INSERT executed, the hooks called, the transaction committed
C18_Witness ==
    /\ Done /\ op = "create" /\ Len(fns) = 7
    /\ pool = <<"BeginTx", "Exec", "Commit">>
    /\ Len(hooks) > 1

\* C19: a parse never waits for the completion signal of a Schema that a
\* call below it on the same call chain published and has not completed
\* (such a wait never ends: the signal is given when that call returns).
C19_NoWaitOnOwnEntry ==
    \A p \in Threads :
        At(p, "Wait") =>
            ~\E i \in 1 .. Len(threads[p]) - 1 :
                /\ threads[p][i].schema = Top(p).s
                /\ threads[p][i].pc = "Relations"
                /\ ~schemas[Top(p).s].initialized

\* C21: with dry-run set, the create and delete stages build the SQL but
\* issue no exec and no query on the pool, leave rows-affected as it was and
\* write no last-insert-id into the destination; no exec or query is issued
\* by any stage of the chain.
C21_DryRun ==
    /\ [][((Stage("gorm:create") \/ Stage("gorm:delete")) /\ db.Config.DryRun) =>
            /\ Issued = <<>>
            /\ db'.RowsAffected = db.RowsAffected
            /\ db'.Statement.Dest = db.Statement.Dest
            /\ (db.Error = NoError /\ db.Statement.SQL = <<>>
                  /\ (op = "create" \/ HasWhere(db)))
                 => /\ Len(db'.Statement.SQL) >= 2
                    /\ db'.Statement.SQL[1] \in {"INSERT", "DELETE"}]_vars
    /\ [](db0 # <<>> /\ db0.Config.DryRun => Range(pool) \cap {"Exec", "Query"} = {})

\* a dry create of a record without primary value ran to the end: its INSERT
\* was built, nothing was executed and the record got no primary value
C21_Witness ==
    /\ Done /\ op = "create" /\ db.Config.DryRun
    /\ db0.Statement.SQL = <<>> /\ db.Statement.SQL # <<>>
    /\ db.Statement.Dest = <<[ID |-> 0]>>
    /\ db.Statement.Schema.Present
    /\ db.Error = NoError
    /\ pool = <<"BeginTx", "Commit">>

\* the objects of the heap H are in the heap G what they are in H
Kept(H, G) ==
    /\ \A i \in DOMAIN H.DBs : G.DBs[i] = H.DBs[i]
    /\ \A i \in DOMAIN H.Configs : G.Configs[i] = H.Configs[i]
    /\ \A i \in DOMAIN H.Statements :
         G.Statements[i] = H.Statements[i] /\ Deep(G, i) = Deep(H, i)

WaitsFor(p, q) ==
    /\ At(p, "Wait")
    /\ ~schemas[Top(p).s].initialized
    /\ \E i \in 1 .. Len(threads[q]) - 1 :
         threads[q][i].schema = Top(p).s /\ threads[q][i].pc = "Relations"

\* C23: when two goroutines parse, through one cache, two record types that
\* refer to each other, there is no state in which each of the two waits for
\* the completion signal of a Schema the other one has yet to complete.
C23_NoMutualWait ==
    (models["A"].rel = "B" /\ models["B"].rel = "A") =>
        \A p, q \in Threads : p # q => ~(WaitsFor(p, q) /\ WaitsFor(q, p))

\* C24: Where.Build leaves the stored expression list of the clause as it
\* was: the same expressions in the same order.
C24_BuildReadOnly ==
    [][(statement # <<>> /\ ~statement.built /\ statement'.built) =>
         backing'[statement.Where] = backing[statement.Where]]_vars

\* C28: with the skip-hooks flag of the statement set, no stage of the create
\* chain and no stage of the delete chain calls a before- or after- hook
\* method of a record.
C28_SkipHooks == db0 # <<>> /\ db0.Statement.SkipHooks => hooks = <<>>

\* vs begins with us
IsPrefix(us, vs) == Len(us) <= Len(vs) /\ SubSeq(vs, 1, Len(us)) = us

----------------------------------------------------------------------------
(* The values of an INSERT: the end of ParseWithSpecialTableName, which      *)
(* lists the primary columns and the fields with a default of the database, *)
(* Statement.SelectAndOmitColumns and callbacks.ConvertToCreateValues.      *)
(* A record is a function from the positions of schema.Fields to the values *)
(* of its fields, 0 being the zero value.                                   *)

\* the positions of schema.Fields, in order
Positions(sch) == [i \in 1 .. Len(sch.Fields) |-> i]

\* the end of ParseWithSpecialTableName: PrimaryFieldDBNames, the fields whose
\* default is left to the database, and the prioritized primary field of an
\* integer type without AUTOINCREMENT tag, which becomes auto-increment
FinishFields(sch) ==
    LET withDefault ==
            SelectSeq(Positions(sch),
                      LAMBDA i : /\ ~sch.Fields[i].Ignored
                                 /\ sch.Fields[i].HasDefaultValue
                                 /\ sch.Fields[i].DefaultValueInterface = 0)
        p == sch.PrioritizedPrimaryField
        auto == p # 0 /\ sch.Fields[p].Int /\ ~sch.Fields[p].AutoIncrement
        added == IF auto /\ (~sch.Fields[p].HasDefaultValue
                               \/ sch.Fields[p].DefaultValueInterface # 0)
                 THEN Append(withDefault, p) ELSE withDefault
        fields == IF auto
                  THEN [sch.Fields EXCEPT ![p].HasDefaultValue = TRUE,
                                          ![p].AutoIncrement = TRUE]
                  ELSE sch.Fields
    IN [Fields |-> fields, DBNames |-> sch.DBNames,
        FieldsByDBName |-> sch.FieldsByDBName, FieldsByName |-> sch.FieldsByName,
        PrimaryFields |-> sch.PrimaryFields,
        PrioritizedPrimaryField |-> sch.PrioritizedPrimaryField,
        PrimaryFieldDBNames |->
            [k \in DOMAIN sch.PrimaryFields |-> sch.Fields[sch.PrimaryFields[k]].DBName],
        FieldsWithDefaultDBValue |-> added]

\* ParseWithSpecialTableName, from the loop over the fields on
ParseSchema(fs) == FinishFields(ParseFields(fs))

\* processColumn of SelectAndOmitColumns: results is the map of the columns,
\* notRestricted whether * was selected
processColumn(sch, r, column, result) ==
    IF column = "*"
    THEN [results |-> [n \in Range(sch.DBNames) |-> result] @@ r.results,
          notRestricted |-> result]
    ELSE LET field == LookUpField(sch, column)
         IN IF field # 0 /\ sch.Fields[field].DBName # ""
            THEN [r EXCEPT !.results = MapSet(@, sch.Fields[field].DBName, result)]
            ELSE [r EXCEPT !.results = MapSet(@, column, result)]

RECURSIVE processColumns(_, _, _, _, _)
\* the loops over stmt.Selects and stmt.Omits, from the i-th column on
processColumns(sch, r, columns, i, result) ==
    IF i > Len(columns) THEN r
    ELSE processColumns(sch, processColumn(sch, r, columns[i], result), columns, i + 1,
                        result)

\* the key of a field in the loop over schema.FieldsByName
ResultName(f) == IF f.DBName = "" THEN f.Name ELSE f.DBName

\* Statement.SelectAndOmitColumns(true, false)
SelectAndOmitColumns(sch, selects, omits) ==
    LET picked == processColumns(sch, [results |-> <<>>, notRestricted |-> FALSE],
                                 selects, 1, TRUE)
        omitted == processColumns(sch, picked, omits, 1, FALSE)
        barred == {ResultName(sch.Fields[i]) :
                     i \in {j \in Range(sch.FieldsByName) : ~sch.Fields[j].Creatable}}
    IN [selectColumns |-> [n \in barred |-> FALSE] @@ omitted.results,
        restricted |-> ~omitted.notRestricted /\ Len(selects) > 0]

\* v, ok := selectColumns[name]; (ok && v) || (!ok && !restricted)
Taken(sel, name) ==
    IF name \in DOMAIN sel.selectColumns THEN sel.selectColumns[name] ELSE ~sel.restricted

\* the first loop of ConvertToCreateValues: the columns of the fields without
\* default, or with a default that is known, that are selected
CreateColumns(sch, sel) ==
    SelectSeq(sch.DBNames,
              LAMBDA n : LET f == sch.Fields[sch.FieldsByDBName[n]]
                         IN /\ ~f.HasDefaultValue \/ f.DefaultValueInterface # 0
                            /\ Taken(sel, n))

\* the record after the loop over the columns: a zero field of a column
\* with a known default is set to the default
Defaulted(sch, columns, rv) ==
    [i \in DOMAIN rv |->
        IF /\ rv[i] = 0 /\ sch.Fields[i].DefaultValueInterface # 0
           /\ \E k \in DOMAIN columns : sch.FieldsByDBName[columns[k]] = i
        THEN sch.Fields[i].DefaultValueInterface ELSE rv[i]]

\* the values of the columns for one record
RowValues(sch, columns, rv) ==
    [k \in DOMAIN columns |-> Defaulted(sch, columns, rv)[sch.FieldsByDBName[columns[k]]]]

\* the fields with a default of the database that are selected and not zero
\* in the record, in the order of schema.FieldsWithDefaultDBValue
HavingValue(sch, sel, rv) ==
    SelectSeq(sch.FieldsWithDefaultDBValue,
              LAMBDA i : Taken(sel, sch.Fields[i].DBName) /\ rv[i] # 0)

\* the keys of defaultValueFieldsHavingValue after the loop over the records
DefaultValueFieldsHavingValue(sch, sel, columns, rows) ==
    UNION {Range(HavingValue(sch, sel, Defaulted(sch, columns, rows[k]))) :
             k \in DOMAIN rows}

\* Dialector.DefaultValueOf(field)
DefaultValueOf == "DEFAULT"

\* the orders in which the keys of a Go map may be ranged over
Orders(keys) ==
    {o \in [1 .. Cardinality(keys) -> keys] : \A i, j \in DOMAIN o : i # j => o[i] # o[j]}

\* ConvertToCreateValues for a record or a slice of records; order is the
\* order in which defaultValueFieldsHavingValue is ranged over. Fields is
\* history: the field that each column was taken from.
ConvertToCreateValues(sch, selects, omits, dest, order) ==
    LET sel == SelectAndOmitColumns(sch, selects, omits)
        columns == CreateColumns(sch, sel)
        set == [k \in DOMAIN dest.rows |-> Defaulted(sch, columns, dest.rows[k])]
        extra == IF dest.kind = "slice" THEN order ELSE HavingValue(sch, sel, set[1])
        more(k) == [x \in DOMAIN extra |->
                      IF extra[x] \in Range(HavingValue(sch, sel, set[k]))
                      THEN set[k][extra[x]] ELSE DefaultValueOf]
    IN IF dest.kind = "slice" /\ Len(dest.rows) = 0
       THEN [Error |-> ErrEmptySlice, Columns |-> columns, Values |-> <<>>, Dest |-> <<>>,
             Fields |-> <<>>]
       ELSE [Error |-> "",
             Columns |-> columns \o [x \in DOMAIN extra |-> sch.Fields[extra[x]].DBName],
             Fields |-> [k \in DOMAIN columns |-> sch.FieldsByDBName[columns[k]]] \o extra,
             Values |-> [k \in DOMAIN dest.rows |->
                           RowValues(sch, columns, dest.rows[k]) \o more(k)],
             Dest |-> set]

\* the tag "-": no permission, no data type and so no column name
TagIgnore(f) ==
    [f EXCEPT !.Ignored = TRUE, !.DBName = "", !.Creatable = FALSE, !.Writable = FALSE,
              !.Readable = FALSE]

\* the tag "->": read only
TagReadOnly(f) == [f EXCEPT !.Creatable = FALSE, !.Writable = FALSE]

\* the tag "default:v"; v = 0 is a default the database computes
TagDefault(f, v) == [f EXCEPT !.HasDefaultValue = TRUE, !.DefaultValueInterface = v]

\* a field of type int
TypeInt(f) == [f EXCEPT !.Int = TRUE]

\* the fields a record type that is inserted may declare
CreateFieldPool ==
    {TypeInt(Field("ID", "id", FALSE, FALSE, TRUE, TRUE, 1)),
     TagDefault(TypeInt(Field("ID", "id", FALSE, FALSE, TRUE, TRUE, 1)), 5),
     TagIgnore(TypeInt(Field("ID", "id", FALSE, FALSE, TRUE, TRUE, 1))),
     Field("Name", "name", FALSE, FALSE, TRUE, TRUE, 1),
     TagReadOnly(Field("Name", "nick", FALSE, FALSE, TRUE, TRUE, 2)),
     TagDefault(Field("Code", "code", FALSE, FALSE, TRUE, TRUE, 1), 0),
     TagReadOnly(Field("Total", "total", FALSE, FALSE, TRUE, TRUE, 1))}

\* the record types that are inserted
CreateFieldLists ==
    {fs \in UNION {[1 .. n -> CreateFieldPool] : n \in 1 .. MaxFields} :
        \A i, j \in DOMAIN fs : i # j => BindName(fs[i]) # BindName(fs[j])}

\* stmt.Selects and stmt.Omits
Selections ==
    {[Selects |-> <<>>, Omits |-> <<>>],
     [Selects |-> <<"*">>, Omits |-> <<>>],
     [Selects |-> <<"Name", "total", "ID">>, Omits |-> <<>>],
     [Selects |-> <<>>, Omits |-> <<"code">>]}

\* the destinations for a record type of n fields: a record, or a slice of up
\* to MaxRows records
Destinations(n) ==
    {[kind |-> "struct", rows |-> <<rv>>] : rv \in [1 .. n -> {0, 7}]}
        \cup {[kind |-> "slice", rows |-> rows] :
                rows \in UNION {[1 .. k -> [1 .. n -> {0, 7}]] : k \in 0 .. MaxRows}}

InitConversion ==
    /\ \E fs \in CreateFieldLists, s \in Selections :
         \E dest \in Destinations(Len(fs)) :
            conversion = [fields |-> fs, Selects |-> s.Selects, Omits |-> s.Omits,
                          dest |-> dest, stage |-> "declared", schema |-> NewFields(fs),
                          calls |-> <<>>]
    /\ IdleSystems
    /\ creation = <<>> /\ parsing = <<>> /\ scanning = <<>>

\* ParseWithSpecialTableName of the record type
ParseType ==
    /\ conversion.stage = "declared"
    /\ conversion' = [conversion EXCEPT !.schema = ParseSchema(conversion.fields),
                                        !.stage = "parsed"]
    /\ UNCHANGED notConversion

\* a call of ConvertToCreateValues with the statement and the destination as
\* they were given; calls holds what the calls returned
Convert ==
    /\ conversion.stage = "parsed"
    /\ Len(conversion.calls) < 2
    /\ LET sch == conversion.schema
           sel == SelectAndOmitColumns(sch, conversion.Selects, conversion.Omits)
           keys == IF conversion.dest.kind = "slice"
                   THEN DefaultValueFieldsHavingValue(sch, sel, CreateColumns(sch, sel),
                                                      conversion.dest.rows)
                   ELSE {}
       IN \E order \in Orders(keys) :
            conversion' = [conversion EXCEPT
                             !.calls = Append(@, ConvertToCreateValues(
                                           sch, conversion.Selects, conversion.Omits,
                                           conversion.dest, order))]
    /\ UNCHANGED notConversion

NextConversion == ParseType \/ Convert

SpecConversion == InitConversion /\ [][NextConversion]_vars

----------------------------------------------------------------------------
(* Properties of the parsed schema and of the values of an INSERT *)

\* no element occurs twice in the sequence
NoRepeat(q) == \A i, j \in DOMAIN q : i # j => q[i] # q[j]

\* C30: in every parsed schema the prioritized primary field, when there is
\* one, is in the list of primary fields, is flagged primary and has a column
\* name; the list of primary column names has the length and the order of the
\* list of primary fields; no field is twice in the list of primary fields or
\* in the list of fields with a default of the database.
C30_PrimaryFields ==
    (conversion # <<>> /\ conversion.stage # "declared") =>
        LET sch == conversion.schema
            p == sch.PrioritizedPrimaryField
        IN /\ p # 0 => /\ p \in Range(sch.PrimaryFields)
                       /\ sch.Fields[p].PrimaryKey
                       /\ sch.Fields[p].DBName # ""
           /\ sch.PrimaryFieldDBNames =
                 [k \in DOMAIN sch.PrimaryFields |-> sch.Fields[sch.PrimaryFields[k]].DBName]
           /\ NoRepeat(sch.PrimaryFields)
           /\ NoRepeat(sch.FieldsWithDefaultDBValue)

\* C29: a field that is not creatable (tag "-", tag "->", tag "<-" without
\* create) is never the field of a column of the INSERT, whatever the select
\* and omit lists and the fields of the record type are.
C29_NonCreatableExcluded ==
    conversion # <<>> =>
        \A c \in DOMAIN conversion.calls :
            \A k \in DOMAIN conversion.calls[c].Fields :
                conversion.schema.Fields[conversion.calls[c].Fields[k]].Creatable

\* C26: two calls of ConvertToCreateValues with the same schema, the same
\* select and omit lists and the same destination return the same columns in
\* the same order and the same rows of values.
C26_Deterministic ==
    (conversion # <<>> /\ Len(conversion.calls) = 2) =>
        /\ conversion.calls[1].Columns = conversion.calls[2].Columns
        /\ conversion.calls[1].Values = conversion.calls[2].Values

\* C25: whenever ConvertToCreateValues returns without error, for a record
\* or a slice of records, every row of values has as many values as there
\* are columns, the columns appended for fields with a default of the
\* database included, and no column name occurs twice.
C25_RowsMatchColumns ==
    conversion # <<>> =>
        \A c \in DOMAIN conversion.calls :
            LET values == conversion.calls[c]
            IN values.Error = "" =>
                 /\ \A k \in DOMAIN values.Values :
                       Len(values.Values[k]) = Len(values.Columns)
                 /\ NoRepeat(values.Columns)

====
